---- MODULE Spec2Model ----
(***************************************************************************)
(* Clone orchestration engine of backend/app: admission control            *)
(* (clone_website), the background pipeline (_run_clone), the event        *)
(* stream reader (event_stream), the sandbox lifecycle (services/sandbox)  *)
(* and the self-healing proxy (proxy_sandbox, _recreate_sandbox).          *)
(*                                                                         *)
(* The program runs on one asyncio event loop.  A step of the model is the *)
(* code a coroutine runs between two points where it really suspends: an   *)
(* external call, an asyncio.sleep, or a blocked semaphore acquire.        *)
(* Queue.put on the unbounded status queue, the uncontended                *)
(* Semaphore.acquire, awaiting a finished task and the synchronous         *)
(* Supabase / Daytona SDK calls do not suspend.  A task made by            *)
(* asyncio.create_task runs its first step later, after whatever handlers  *)
(* the loop already holds ready.                                           *)
(***************************************************************************)
EXTENDS Integers, Sequences, FiniteSets, TLC

(* ------------------------------ bounds -------------------------------- *)
\* client keys (network addresses) that send clone requests
NumClients == 2
\* clone ids (uuid4 values) the workload may allocate
MaxSessions == 3
\* size of the concurrency gate, the deployment's MAX_CONCURRENT_CLONES
\* (clone.py:122 reads it from the environment, default 5)
MAX_CONCURRENT_CLONES == 1
\* clock ticks of the admission workload
MaxTicks == 1
\* sandboxes the provider hands out for one clone id
MaxSandboxes == 3
\* _recreate_sandbox tasks created and not yet started, per clone id
MaxRecTasks == 3
\* proxy requests of one clone id waiting for the sandbox's answer
MaxInflight == 2
\* the history count of setups stops counting here
MaxAttemptsSeen == 2
\* viewport screenshots one scrape returns in the generation workload
MaxScreens == 3
\* files one section agent emits
MaxFiles == 1
\* viewport screenshots of the screenshot-assignment workload
MaxShots == 60

(* ------------------------- program constants -------------------------- *)
RATE_LIMIT_SECONDS == 10
SANDBOX_MAX_AGE == 600
MAX_FIX_RETRIES == 3
DEV_SERVER_ATTEMPTS == 15
MAX_PARALLEL_AGENTS == 5
VIEWPORT_HEIGHT == 720

Clients == 1..NumClients
CloneIds == 1..MaxSessions
None == 0

VARIABLES
  now,               \* time.time()
  rate_limit_map,    \* _rate_limit_map: client -> last accepted-or-capacity time (0: absent)
  active_clones,     \* _active_clones: client -> clone id (None: absent)
  clone_semaphore,   \* _clone_semaphore._value
  sem_waiters,       \* _clone_semaphore._waiters, in FIFO order
  clone_queues,      \* keys of _clone_queues
  nextId,            \* next uuid4 (clone ids are handed out in order)
  resp,              \* the last HTTP response a handler returned
  pc,                \* where each _run_clone task stands
  client_ip,         \* the client_ip argument of each _run_clone task
  status_queue,      \* every event put on the session's queue, in order
  readPos,           \* how many of them event_stream has taken
  reader,            \* event_stream: "none", "open", "closed"
  sandbox_task,      \* the _setup_sandbox task: "none","pending","true","false","cancelled"
  files,             \* ai_result["files"]: sequence of [path, content]
  upIdx,             \* index of the upload loop
  dev_sandbox,       \* the sandbox object start_dev_server holds while polling
  polls,             \* attempt of start_dev_server's readiness loop
  fix_attempt,       \* fix_attempt of the auto-fix loop
  err_file,          \* the path being repaired
  sandbox_urls,      \* _sandbox_urls: clone id -> [url, at] (NoEntry: absent)
  sandbox_instances, \* _sandbox_instances / _sandbox_project_dirs / _sandbox_id_map
  provider,          \* per clone id: its sandboxes created at the provider and not deleted
  nextSandbox,       \* per clone id: the number of its next sandbox (sandbox ids are fresh)
  storage,           \* Supabase storage: clone id -> persisted files
  sandbox_fs,        \* per clone id: the generated files in the project dir of its recorded sandbox
  recreating,        \* _recreating
  recreation_failed, \* _recreation_failed
  rec_scheduled,     \* _recreate_sandbox tasks created and not yet started, per id
  rec_running,       \* _recreate_sandbox tasks suspended in start_dev_server
  inflight,          \* proxy requests suspended in client.get(target): clone id -> target -> how many
  rec_attempts,      \* history: setups begun by the tasks created since none was waiting, per id
  dropped,           \* history: why the recorded address of an id was last removed
  ticks,             \* clock ticks taken
  num_screens,       \* n = len(screenshots) of the generation (0: none yet)
  num_agents,        \* num_agents of the generation (0: not determined)
  ss_per_agent,      \* ss_assignments: per agent the snapshot indices it is given
  core_ranges,       \* core_ranges: per agent (core_start_in_list, core_end_in_list)
  gen_pc,            \* where generate_clone_parallel stands
  component_assignments, \* the planner's assignments, one list per agent
  agent_pc,          \* where each _run_section_agent task stands
  agent_out,         \* what each finished _run_section_agent task ended with
  done_order,        \* history: the agents in the order their tasks finished
  agent_results,     \* clean_results: the gathered results, exceptions replaced
  page_content,      \* the Composition app/page.tsx of the assembler (NoPage: none)
  pos_per_agent,     \* pos_assignments: per agent the scroll offsets it is given
  agent_calls,       \* history: per agent the generation and continuation calls it issued
  calls              \* history: per session the other model calls issued, by kind

admVars == <<rate_limit_map, active_clones, clone_semaphore, sem_waiters, clone_queues, nextId>>
taskVars == <<pc, client_ip, sandbox_task, files, upIdx, dev_sandbox, polls, fix_attempt, err_file>>
streamVars == <<status_queue, readPos, reader>>
envVars == <<sandbox_urls, sandbox_instances, provider, nextSandbox, storage, sandbox_fs>>
proxyVars == <<recreating, recreation_failed, rec_scheduled, rec_running, inflight,
               rec_attempts, dropped>>
genVars == <<num_screens, num_agents, ss_per_agent, core_ranges, gen_pc,
             component_assignments, agent_pc, agent_out, done_order, agent_results,
             page_content, pos_per_agent, agent_calls>>
vars == <<now, ticks, resp, admVars, taskVars, streamVars, envVars, proxyVars, genVars, calls>>

NoEntry == [url |-> None, at |-> 0]
NoResp == [code |-> 0, body |-> "none"]
NoPage == [imports |-> << >>, renders |-> << >>, by |-> "none"]

\* the model calls a session makes besides those of its section agents:
\* generate_clone's own (ai_generator.py:1568), the planner's (1214), the
\* assembler's (917) and fix_component's (1649)
CallKinds == {"single", "planner", "assembler", "repair"}
NoCalls == [k \in CallKinds |-> 0]

\* the files one generation returns (paths of the generated project)
GeneratedFiles ==
  << [path |-> "components/Hero.tsx", content |-> "generated"],
     [path |-> "app/page.tsx", content |-> "generated"] >>

\* the module state of clone.py and sandbox.py after import, no session yet
InitSession ==
  /\ now = RATE_LIMIT_SECONDS
  /\ ticks = 0
  /\ resp = NoResp
  /\ rate_limit_map = [c \in Clients |-> 0]
  /\ active_clones = [c \in Clients |-> None]
  /\ clone_semaphore = MAX_CONCURRENT_CLONES
  /\ sem_waiters = << >>
  /\ clone_queues = {}
  /\ nextId = 1
  /\ pc = [s \in CloneIds |-> "none"]
  /\ client_ip = [s \in CloneIds |-> None]
  /\ status_queue = [s \in CloneIds |-> << >>]
  /\ readPos = [s \in CloneIds |-> 0]
  /\ reader = [s \in CloneIds |-> "none"]
  /\ sandbox_task = [s \in CloneIds |-> "none"]
  /\ files = [s \in CloneIds |-> << >>]
  /\ upIdx = [s \in CloneIds |-> 0]
  /\ dev_sandbox = [s \in CloneIds |-> None]
  /\ polls = [s \in CloneIds |-> 0]
  /\ fix_attempt = [s \in CloneIds |-> 0]
  /\ err_file = [s \in CloneIds |-> ""]
  /\ sandbox_urls = [s \in CloneIds |-> NoEntry]
  /\ sandbox_instances = [s \in CloneIds |-> None]
  /\ provider = [s \in CloneIds |-> {}]
  /\ nextSandbox = [s \in CloneIds |-> 1]
  /\ storage = [s \in CloneIds |-> << >>]
  /\ sandbox_fs = [s \in CloneIds |-> {}]
  /\ recreating = {}
  /\ recreation_failed = {}
  /\ rec_scheduled = [s \in CloneIds |-> 0]
  /\ rec_running = {}
  /\ inflight = [s \in CloneIds |-> [h \in 1..MaxSandboxes |-> 0]]
  /\ rec_attempts = [s \in CloneIds |-> 0]
  /\ dropped = [s \in CloneIds |-> "never"]
  /\ calls = [s \in CloneIds |-> NoCalls]

\* no generation has begun
InitGeneration ==
  /\ num_agents = 0
  /\ ss_per_agent = << >>
  /\ core_ranges = << >>
  /\ gen_pc = "idle"
  /\ component_assignments = << >>
  /\ agent_pc = << >>
  /\ agent_out = << >>
  /\ done_order = << >>
  /\ agent_results = << >>
  /\ page_content = NoPage
  /\ pos_per_agent = << >>
  /\ agent_calls = << >>

Init == InitSession /\ num_screens = 0 /\ InitGeneration

(* ------------------------------ clock --------------------------------- *)
Tick(d) ==
  /\ ticks < MaxTicks
  /\ now' = now + d
  /\ ticks' = ticks + 1
  /\ UNCHANGED <<genVars, calls, resp, admVars, taskVars, streamVars, envVars, proxyVars>>

(* ----------------------- admission: clone_website --------------------- *)
\* a variant for C1: the in-flight check of clone_website never fires
IsActive_Never(c) == FALSE

\* clone.py:569  client_ip in _active_clones
IsActive(c) == active_clones[c] # None

\* a variant for C24: the rate check of clone_website never fires
RateLimited_Never(c) == FALSE

\* clone.py:573-575  now - _rate_limit_map.get(client_ip, 0) < RATE_LIMIT_SECONDS
RateLimited(c) == now - rate_limit_map[c] < RATE_LIMIT_SECONDS

\* clone.py:580  _clone_semaphore._value == 0
GateExhausted == clone_semaphore = 0

\* clone.py:569-570: 429, a clone is already in progress
CloneRejectBusy(c) ==
  /\ IsActive(c)
  /\ resp' = [code |-> 429, body |-> "busy"]
  /\ UNCHANGED <<genVars, calls, now, ticks, admVars, taskVars, streamVars, envVars, proxyVars>>

\* clone.py:573-576: 429, please wait
CloneRejectRate(c) ==
  /\ ~IsActive(c)
  /\ RateLimited(c)
  /\ resp' = [code |-> 429, body |-> "rate"]
  /\ UNCHANGED <<genVars, calls, now, ticks, admVars, taskVars, streamVars, envVars, proxyVars>>

\* clone.py:577-582: the request time is recorded, then 503 when no slot is free
CloneRejectCapacity(c) ==
  /\ ~IsActive(c)
  /\ ~RateLimited(c)
  /\ GateExhausted
  /\ rate_limit_map' = [rate_limit_map EXCEPT ![c] = now]
  /\ resp' = [code |-> 503, body |-> "capacity"]
  /\ UNCHANGED <<genVars, calls, now, ticks, active_clones, clone_semaphore, sem_waiters, clone_queues,
                 nextId, taskVars, streamVars, envVars, proxyVars>>

\* clone.py:577-648: accepted; the queue is registered, the task created, the
\* stream returned.  The task has not run yet.
CloneAccept(c) ==
  /\ ~IsActive(c)
  /\ ~RateLimited(c)
  /\ ~GateExhausted
  /\ nextId <= MaxSessions
  /\ rate_limit_map' = [rate_limit_map EXCEPT ![c] = now]
  /\ active_clones' = [active_clones EXCEPT ![c] = nextId]
  /\ clone_queues' = clone_queues \cup {nextId}
  /\ pc' = [pc EXCEPT ![nextId] = "scheduled"]
  /\ client_ip' = [client_ip EXCEPT ![nextId] = c]
  /\ reader' = [reader EXCEPT ![nextId] = "open"]
  /\ nextId' = nextId + 1
  /\ resp' = [code |-> 200, body |-> "stream"]
  /\ UNCHANGED <<genVars, calls, now, ticks, clone_semaphore, sem_waiters, sandbox_task, files, upIdx,
                 dev_sandbox, polls, fix_attempt, err_file, status_queue, readPos,
                 envVars, proxyVars>>

\* POST /api/clone
clone_website(c) ==
  \/ CloneRejectBusy(c)
  \/ CloneRejectRate(c)
  \/ CloneRejectCapacity(c)
  \/ CloneAccept(c)

(* ------------------------- the semaphore ------------------------------ *)
\* first waiter whose future is not done (asyncio.Semaphore._wake_up_next)
RECURSIVE FirstBlockedIn(_, _)
FirstBlockedIn(w, p) ==
  IF w = << >> THEN None
  ELSE IF p[Head(w)] = "acquire" THEN Head(w) ELSE FirstBlockedIn(Tail(w), p)

\* asyncio.Semaphore.locked(): no unit, or somebody is queued
SemLocked == clone_semaphore = 0 \/ sem_waiters # << >>

\* _clone_semaphore.release() (clone.py:539): the unit goes to the first
\* blocked waiter if there is one, else back to the counter
SemValueAfterRelease(p) ==
  IF FirstBlockedIn(sem_waiters, p) # None THEN clone_semaphore ELSE clone_semaphore + 1

PcAfterRelease(p) ==
  IF FirstBlockedIn(sem_waiters, p) # None
    THEN [p EXCEPT ![FirstBlockedIn(sem_waiters, p)] = "acquired"]
    ELSE p

\* a variant for C3: the cleanup leaves the in-flight mark
ActiveAfterCleanup_Kept(s) == active_clones

\* clone.py:540  _active_clones.pop(client_ip, None)
ActiveAfterCleanup(s) == [active_clones EXCEPT ![client_ip[s]] = None]

\* a variant for C4: the cleanup puts no sentinel
Sentinel_None == << >>

\* clone.py:541  the terminal sentinel
Sentinel == << "_done" >>

\* clone.py:538-542: the finally clause, after the try block put evs
Finally(s, evs) ==
  /\ status_queue' = [status_queue EXCEPT ![s] = @ \o evs \o Sentinel]
  /\ clone_semaphore' = SemValueAfterRelease([pc EXCEPT ![s] = "finished"])
  /\ pc' = PcAfterRelease([pc EXCEPT ![s] = "finished"])
  /\ active_clones' = ActiveAfterCleanup(s)

\* a variant for C5: an early return that reports nothing
ErrorReturn_Silent(s, evs) == Finally(s, evs)

\* a variant for C33: the failure is reported twice
ErrorReturn_Twice(s, evs) == Finally(s, evs \o << "error", "error" >>)

\* an early return or a handled exception: one error event, then the finally clause
ErrorReturn(s, evs) == Finally(s, evs \o << "error" >>)

Put(s, evs) == status_queue' = [status_queue EXCEPT ![s] = @ \o evs]

\* history: session s sends a model call of the kind
Issued(s, kind) == calls' = [calls EXCEPT ![s][kind] = @ + 1]

(* --------------------- the pipeline: _run_clone ----------------------- *)
\* clone.py:305-314: the task's first step.  acquire() returns at once when the
\* semaphore is not locked, else the task queues.
RunCloneStart(s) ==
  /\ pc[s] = "scheduled"
  /\ IF ~SemLocked
       THEN /\ clone_semaphore' = clone_semaphore - 1
            /\ pc' = [pc EXCEPT ![s] = "scrape"]
            /\ Put(s, << "scraping" >>)
            /\ UNCHANGED sem_waiters
       ELSE /\ sem_waiters' = Append(sem_waiters, s)
            /\ pc' = [pc EXCEPT ![s] = "acquire"]
            /\ UNCHANGED <<clone_semaphore, status_queue>>
  /\ UNCHANGED <<genVars, calls, now, ticks, resp, rate_limit_map, active_clones, clone_queues, nextId,
                 client_ip, sandbox_task, files, upIdx, dev_sandbox, polls, fix_attempt,
                 err_file, readPos, reader, envVars, proxyVars>>

RemoveWaiter(w, s) == SelectSeq(w, LAMBDA x: x # s)

\* clone.py:305-314: a queued task resumes holding the unit release() gave it
\* (acquire() then wakes the next waiter if a unit is free)
RunCloneResume(s) ==
  /\ pc[s] = "acquired"
  /\ sem_waiters' = RemoveWaiter(sem_waiters, s)
  /\ LET p == [pc EXCEPT ![s] = "scrape"]
         w == FirstBlockedIn(sem_waiters, p)
     IN IF clone_semaphore > 0 /\ w # None
          THEN /\ clone_semaphore' = clone_semaphore - 1
               /\ pc' = [p EXCEPT ![w] = "acquired"]
          ELSE /\ clone_semaphore' = clone_semaphore
               /\ pc' = p
  /\ Put(s, << "scraping" >>)
  /\ UNCHANGED <<genVars, calls, now, ticks, resp, rate_limit_map, active_clones,
                 clone_queues, nextId, client_ip, sandbox_task, files, upIdx, dev_sandbox,
                 polls, fix_attempt, err_file, readPos, reader, envVars, proxyVars>>

\* a variant for C36: cancel() leaves a task that has not begun free to run
Cancelled_Ignored(st) == st

\* clone.py:384, 394  sandbox_task.cancel(): a finished task stays as it is,
\* a task that has not begun never runs
Cancelled(st) == IF st = "pending" THEN "cancelled" ELSE st

\* clone.py:314-381: scrape_and_capture returned or raised.  On success the
\* sandbox task is created and generate_clone runs up to its first model call.
ScrapeDone(s, outcome) ==
  /\ pc[s] = "scrape"
  /\ \/ /\ outcome = "fail"                       \* clone.py:328-331
        /\ ErrorReturn(s, << >>)
        /\ UNCHANGED <<sandbox_task, calls>>
     \/ /\ outcome = "raise"                      \* clone.py:535-537
        /\ ErrorReturn(s, << "screenshot" >>)
        /\ UNCHANGED <<sandbox_task, calls>>
     \/ /\ outcome = "ok_raise"                   \* clone.py:362-386 and
        \* ai_generator.py:1503-1566: generate_clone raises before its first
        \* model call; the task just created is cancelled before its first step
        /\ ErrorReturn(s, << "screenshot", "generating" >>)
        /\ sandbox_task' = [sandbox_task EXCEPT ![s] = Cancelled("pending")]
        /\ UNCHANGED calls
     \/ /\ outcome = "ok"
        /\ Put(s, << "screenshot", "generating", "generating", "generating" >>)
        /\ sandbox_task' = [sandbox_task EXCEPT ![s] = "pending"]
        /\ pc' = [pc EXCEPT ![s] = "generate"]
        /\ Issued(s, "single")
        /\ UNCHANGED <<clone_semaphore, active_clones>>
  /\ UNCHANGED <<genVars, now, ticks, resp, rate_limit_map, sem_waiters, clone_queues, nextId,
                 client_ip, files, upIdx, dev_sandbox, polls, fix_attempt, err_file,
                 readPos, reader, envVars, proxyVars>>

(* ------------------- sandbox lifecycle: services/sandbox.py ----------- *)
SetupOutcomes == {"create_fail", "install_fail", "ok"}

\* sandbox.py:56: daytona.create succeeds; the provider refuses when it has
\* handed out all it allows
CanCreate(id, outcome) == outcome # "create_fail" /\ nextSandbox[id] <= MaxSandboxes

\* sandbox.py:62-66  _sandbox_instances[clone_id] = sandbox
InstancesAfterSetup(id, outcome) ==
  IF CanCreate(id, outcome) THEN [sandbox_instances EXCEPT ![id] = nextSandbox[id]]
  ELSE sandbox_instances

\* sandbox.py:56  the provider's side of daytona.create
ProviderAfterSetup(id, outcome) ==
  IF CanCreate(id, outcome) THEN [provider EXCEPT ![id] = @ \cup {nextSandbox[id]}]
  ELSE provider

\* sandbox.py:19-105  setup_sandbox_shell's result
SetupResult(id, outcome) == CanCreate(id, outcome) /\ outcome = "ok"

\* sandbox.py:46-84  the on_status messages (plain strings) it puts
SetupEvents(id, outcome) ==
  IF CanCreate(id, outcome) THEN << "msg", "msg", "msg" >> ELSE << "msg" >>

\* the state change of one setup_sandbox_shell(clone_id) call; the project
\* dir of a new sandbox holds the template only (sandbox.py:73-78)
SetupSandboxShell(id, outcome) ==
  /\ sandbox_instances' = InstancesAfterSetup(id, outcome)
  /\ provider' = ProviderAfterSetup(id, outcome)
  /\ nextSandbox' = IF CanCreate(id, outcome) THEN [nextSandbox EXCEPT ![id] = @ + 1]
                    ELSE nextSandbox
  /\ sandbox_fs' = IF CanCreate(id, outcome) THEN [sandbox_fs EXCEPT ![id] = {}] ELSE sandbox_fs

\* sandbox.py:260-288  cleanup_sandbox: the maps are popped, the sandbox deleted
InstancesAfterCleanup(id) == [sandbox_instances EXCEPT ![id] = None]
ProviderAfterCleanup(id) == [provider EXCEPT ![id] = @ \ {sandbox_instances[id]}]

\* sandbox.py:129-132  sandbox.fs.upload_file: the file replaces what the path held
Uploaded(fsys, f) == {r \in fsys : r.path # f.path} \cup {f}

\* sandbox.py:108-137  upload_file_to_sandbox(clone_id, f.path, f.content):
\* nothing is written without a sandbox instance or when the upload raises
FsAfterUpload(id, f, ok) ==
  IF sandbox_instances[id] # None /\ ok THEN [sandbox_fs EXCEPT ![id] = Uploaded(@, f)]
  ELSE sandbox_fs

(* --------------------- the pipeline, continued ------------------------ *)
\* clone.py:351-362: the _setup_sandbox task runs; nothing in it suspends
SandboxTaskRun(s, outcome) ==
  /\ sandbox_task[s] = "pending"
  /\ SetupSandboxShell(s, outcome)
  /\ sandbox_task' = [sandbox_task EXCEPT ![s] = IF SetupResult(s, outcome) THEN "true" ELSE "false"]
  /\ Put(s, SetupEvents(s, outcome))
  /\ UNCHANGED <<genVars, calls, now, ticks, resp, admVars, pc, client_ip, files, upIdx, dev_sandbox, polls,
                 fix_attempt, err_file, readPos, reader, sandbox_urls, storage, proxyVars>>

\* sandbox.py:108-137  upload_file_to_sandbox: False without a sandbox instance
UploadEvents(id, ok) ==
  IF sandbox_instances[id] # None /\ ok THEN << "file_upload" >> ELSE << >>

\* ai_generator.py:1599-1608  one file_write event per generated file
GenerationEvents(fs) == [i \in 1..Len(fs) |-> "file_write"]

\* clone.py:364-420: generate_clone returned or raised
GenerateDone(s, outcome, ok) ==
  /\ pc[s] = "generate"
  /\ sandbox_task[s] # "pending"
  /\ \/ /\ outcome = "raise"                      \* clone.py:382-386
        /\ sandbox_task' = [sandbox_task EXCEPT ![s] = Cancelled(@)]
        /\ ErrorReturn(s, << >>)
        /\ UNCHANGED <<files, upIdx, sandbox_fs>>
     \/ /\ outcome = "nofiles"                    \* clone.py:393-396
        /\ sandbox_task' = [sandbox_task EXCEPT ![s] = Cancelled(@)]
        /\ ErrorReturn(s, << >>)
        /\ UNCHANGED <<files, upIdx, sandbox_fs>>
     \/ /\ outcome = "files"
        /\ sandbox_task[s] # "true"               \* clone.py:405-408
        /\ ErrorReturn(s, GenerationEvents(GeneratedFiles) \o << "deploying" >>)
        /\ files' = [files EXCEPT ![s] = GeneratedFiles]
        /\ UNCHANGED <<sandbox_task, upIdx, sandbox_fs>>
     \/ /\ outcome = "files"
        /\ sandbox_task[s] = "true"               \* clone.py:410-420
        /\ files' = [files EXCEPT ![s] = GeneratedFiles]
        /\ upIdx' = [upIdx EXCEPT ![s] = 1]
        /\ Put(s, GenerationEvents(GeneratedFiles) \o << "deploying", "deploying" >>
                  \o UploadEvents(s, ok))
        /\ sandbox_fs' = FsAfterUpload(s, GeneratedFiles[1], ok)
        /\ pc' = [pc EXCEPT ![s] = "upload"]
        /\ UNCHANGED <<sandbox_task, clone_semaphore, active_clones>>
  /\ UNCHANGED <<genVars, calls, now, ticks, resp, rate_limit_map, sem_waiters, clone_queues, nextId,
                 client_ip, dev_sandbox, polls, fix_attempt, err_file, readPos, reader,
                 sandbox_urls, sandbox_instances, provider, nextSandbox, storage, proxyVars>>

\* sandbox.py:244, 256  start_dev_server gives up: cleanup_sandbox(clone_id)
DevServerCleanup(id) ==
  /\ sandbox_instances' = InstancesAfterCleanup(id)
  /\ provider' = ProviderAfterCleanup(id)
  /\ sandbox_fs' = [sandbox_fs EXCEPT ![id] = {}]

\* clone.py:412-429 and sandbox.py:200-220: the next file of the upload loop,
\* or, after the last one, start_dev_server up to its first sleep
UploadNext(s, ok, execOk) ==
  /\ pc[s] = "upload"
  /\ IF upIdx[s] < Len(files[s])
       THEN /\ upIdx' = [upIdx EXCEPT ![s] = @ + 1]
            /\ Put(s, UploadEvents(s, ok))
            /\ sandbox_fs' = FsAfterUpload(s, files[s][upIdx[s] + 1], ok)
            /\ UNCHANGED <<pc, dev_sandbox, polls, clone_semaphore, active_clones,
                           sandbox_instances, provider>>
       ELSE IF sandbox_instances[s] = None       \* sandbox.py:203-205
         THEN /\ ErrorReturn(s, << "deploying" >>)
              /\ UNCHANGED <<upIdx, dev_sandbox, polls, sandbox_instances, provider, sandbox_fs>>
       ELSE IF ~execOk                            \* sandbox.py:254-257
         THEN /\ ErrorReturn(s, << "deploying", "msg" >>)
              /\ DevServerCleanup(s)
              /\ UNCHANGED <<upIdx, dev_sandbox, polls>>
       ELSE /\ Put(s, << "deploying", "msg" >>)
            /\ dev_sandbox' = [dev_sandbox EXCEPT ![s] = sandbox_instances[s]]
            /\ polls' = [polls EXCEPT ![s] = 0]
            /\ pc' = [pc EXCEPT ![s] = "start"]
            /\ UNCHANGED <<upIdx, clone_semaphore, active_clones, sandbox_instances, provider,
                           sandbox_fs>>
  /\ UNCHANGED <<genVars, calls, now, ticks, resp, rate_limit_map, sem_waiters, clone_queues, nextId,
                 client_ip, sandbox_task, files, fix_attempt, err_file, readPos, reader,
                 sandbox_urls, nextSandbox, storage, proxyVars>>

\* a variant for C32: the readiness loop allows one poll more
LastPoll_Late(n) == n >= DEV_SERVER_ATTEMPTS

\* sandbox.py:219  for attempt in range(15): the poll just made was the last
LastPoll(n) == n + 1 >= DEV_SERVER_ATTEMPTS

\* clone.py:431  _sandbox_urls[clone_id] = (dev_url, time.time())
UrlsAfterServing(id, h) == [sandbox_urls EXCEPT ![id] = [url |-> h, at |-> now]]

\* sandbox.py:219-257 and clone.py:424-440: one readiness poll of the pipeline's
\* start_dev_server; on success the address is recorded and the fix loop sleeps
StartPoll(s, ready, linkOk) ==
  /\ pc[s] = "start"
  /\ IF ready /\ linkOk
       THEN /\ sandbox_urls' = UrlsAfterServing(s, dev_sandbox[s])
            /\ fix_attempt' = [fix_attempt EXCEPT ![s] = 0]
            /\ pc' = [pc EXCEPT ![s] = "fix_sleep"]
            /\ UNCHANGED <<polls, status_queue, clone_semaphore, active_clones,
                           sandbox_instances, provider, sandbox_fs>>
       ELSE IF ready \/ LastPoll(polls[s])       \* sandbox.py:237-257
         THEN /\ ErrorReturn(s, << >>)
              /\ DevServerCleanup(s)
              /\ UNCHANGED <<polls, fix_attempt, sandbox_urls>>
       ELSE /\ polls' = [polls EXCEPT ![s] = @ + 1]
            /\ UNCHANGED <<pc, status_queue, fix_attempt, clone_semaphore, active_clones,
                           sandbox_urls, sandbox_instances, provider, sandbox_fs>>
  /\ UNCHANGED <<genVars, calls, now, ticks, resp, rate_limit_map, sem_waiters, clone_queues, nextId,
                 client_ip, sandbox_task, files, upIdx, dev_sandbox, err_file, readPos,
                 reader, nextSandbox, storage, proxyVars>>

(* ------------------------- the auto-fix loop -------------------------- *)
\* what _check_page_error can name as the offending file (clone.py:262-285)
ErrorHints == {"", "components/Hero.tsx", "app/page.tsx", "components/Other.tsx"}

\* err_file.split("/")[-1]
LastSegment(h) ==
  CASE h = "components/Hero.tsx" -> "Hero.tsx"
    [] h = "app/page.tsx" -> "page.tsx"
    [] h = "components/Other.tsx" -> "Other.tsx"
    [] OTHER -> ""

\* seg in path (substring)
SegmentIn(seg, path) ==
  \/ seg = ""
  \/ seg = "Hero.tsx" /\ path = "components/Hero.tsx"
  \/ seg = "page.tsx" /\ path = "app/page.tsx"

\* clone.py:453-459: the index of the file to repair, 0 when there is none
BrokenFile(fs, hint) ==
  IF \E i \in 1..Len(fs) : fs[i].path = hint
    THEN CHOOSE i \in 1..Len(fs) : fs[i].path = hint
  ELSE IF \E i \in 1..Len(fs) : SegmentIn(LastSegment(hint), fs[i].path)
    THEN CHOOSE i \in 1..Len(fs) :
           /\ SegmentIn(LastSegment(hint), fs[i].path)
           /\ \A j \in 1..(i - 1) : ~SegmentIn(LastSegment(hint), fs[j].path)
  ELSE 0

PersistOutcomes == {"stored", "not_stored"}

\* clone.py:501-503  upload_static_files(clone_id, source_files)
StorageAfterPersist(id, fs, persist) ==
  IF persist = "stored" THEN [storage EXCEPT ![id] = fs] ELSE storage

\* a variant for C23: the loop's end is reported as an error of the session
Finalize_Error(s, evs, fs, persist) ==
  /\ storage' = storage
  /\ ErrorReturn(s, evs)

\* clone.py:492-542: costs, persistence, the record, the done event, the finally clause
Finalize(s, evs, fs, persist) ==
  /\ storage' = StorageAfterPersist(s, fs, persist)
  /\ Finally(s, evs \o << "done" >>)

\* clone.py:440-441: the sleep is over, _check_page_error sends its request
FixWake(s) ==
  /\ pc[s] = "fix_sleep"
  /\ pc' = [pc EXCEPT ![s] = "fix_probe"]
  /\ UNCHANGED <<genVars, calls, now, ticks, resp, admVars, client_ip, sandbox_task, files, upIdx,
                 dev_sandbox, polls, fix_attempt, err_file, streamVars, envVars, proxyVars>>

\* a variant for C22: a probe that got no answer counts as an error of the page
CheckPageError_Strict(probe) == IF probe = "unreachable" THEN "" ELSE probe

\* clone.py:228-297  _check_page_error's result for what the probe met: None
\* ("healthy") for a clean page and for a request that raised (295-297), else
\* the file the error names ("": none named)
CheckPageError(probe) == IF probe = "unreachable" THEN "healthy" ELSE probe

\* clone.py:441-469: the probe answered.  probe is "healthy", "unreachable" (the
\* request failed at transport level) or the hinted file of an error.
FixProbe(s, probe, persist) ==
  /\ pc[s] = "fix_probe"
  /\ IF CheckPageError(probe) = "healthy"
       THEN /\ Finalize(s, << >>, files[s], persist)
            /\ UNCHANGED <<err_file, calls>>
       ELSE IF BrokenFile(files[s], CheckPageError(probe)) = 0
         THEN /\ Finalize(s, << "fixing" >>, files[s], persist)
              /\ UNCHANGED <<err_file, calls>>
       ELSE /\ Put(s, << "fixing" >>)
            /\ err_file' = [err_file EXCEPT ![s] =
                              files[s][BrokenFile(files[s], CheckPageError(probe))].path]
            /\ pc' = [pc EXCEPT ![s] = "fix_call"]
            /\ Issued(s, "repair")
            /\ UNCHANGED <<clone_semaphore, active_clones, storage>>
  /\ UNCHANGED <<genVars, now, ticks, resp, rate_limit_map, sem_waiters, clone_queues, nextId,
                 client_ip, sandbox_task, files, upIdx, dev_sandbox, polls, fix_attempt,
                 readPos, reader, sandbox_urls, sandbox_instances, provider, nextSandbox,
                 sandbox_fs, proxyVars>>

\* a variant for C35: the repaired content is not taken into memory
FilesAfterFix_Kept(fs, path) == fs

\* clone.py:477  broken_file["content"] = fixed_content
FilesAfterFix(fs, path) ==
  [i \in 1..Len(fs) |-> IF fs[i].path = path THEN [fs[i] EXCEPT !.content = "fixed"] ELSE fs[i]]

\* clone.py:439  for fix_attempt in range(MAX_FIX_RETRIES): the round was the last
LastRound(n) == n + 1 >= MAX_FIX_RETRIES

\* clone.py:464-490: fix_component returned or raised
FixCallDone(s, ok, persist) ==
  /\ pc[s] = "fix_call"
  /\ IF ~ok
       THEN /\ Finalize(s, << >>, files[s], persist)
            /\ UNCHANGED <<files, fix_attempt>>
       ELSE IF LastRound(fix_attempt[s])
         THEN /\ files' = [files EXCEPT ![s] = FilesAfterFix(@, err_file[s])]
              /\ Finalize(s, << "file_write" >>, FilesAfterFix(files[s], err_file[s]), persist)
              /\ UNCHANGED fix_attempt
       ELSE /\ files' = [files EXCEPT ![s] = FilesAfterFix(@, err_file[s])]
            /\ fix_attempt' = [fix_attempt EXCEPT ![s] = @ + 1]
            /\ Put(s, << "file_write" >>)
            /\ pc' = [pc EXCEPT ![s] = "fix_sleep"]
            /\ UNCHANGED <<clone_semaphore, active_clones, storage>>
  /\ IF ok                                        \* clone.py:478, the result is not looked at
       THEN \E up \in BOOLEAN :
              sandbox_fs' = FsAfterUpload(s, [path |-> err_file[s], content |-> "fixed"], up)
       ELSE UNCHANGED sandbox_fs
  /\ UNCHANGED <<genVars, calls, now, ticks, resp, rate_limit_map, sem_waiters, clone_queues, nextId,
                 client_ip, sandbox_task, upIdx, dev_sandbox, polls, err_file, readPos,
                 reader, sandbox_urls, sandbox_instances, provider, nextSandbox, proxyVars>>

(* -------------------- the stream reader: event_stream ----------------- *)
\* clone.py:596-604, 635-636: the reader takes the next event; the sentinel ends it
ReaderGet(s) ==
  /\ reader[s] = "open"
  /\ readPos[s] < Len(status_queue[s])
  /\ readPos' = [readPos EXCEPT ![s] = @ + 1]
  /\ IF status_queue[s][readPos[s] + 1] = "_done"
       THEN /\ reader' = [reader EXCEPT ![s] = "closed"]
            /\ clone_queues' = clone_queues \ {s}
       ELSE UNCHANGED <<reader, clone_queues>>
  /\ UNCHANGED <<genVars, calls, now, ticks, resp, rate_limit_map, active_clones, clone_semaphore,
                 sem_waiters, nextId, taskVars, status_queue, envVars, proxyVars>>

\* a variant for C6: the task is destroyed with the response that started it
PcAfterReaderStop_Cancelled(s) ==
  [pc EXCEPT ![s] = IF @ \in {"none", "finished"} THEN @ ELSE "cancelled"]

\* what ending the stream does to the _run_clone task: nothing (clone.py:591,
\* the task belongs to the loop, not to the response)
PcAfterReaderStop(s) == pc

\* clone.py:598-601, 633-636: the reader stops on its 300 s timeout or because
\* the client went away
ReaderStop(s) ==
  /\ reader[s] = "open"
  /\ reader' = [reader EXCEPT ![s] = "closed"]
  /\ clone_queues' = clone_queues \ {s}
  /\ pc' = PcAfterReaderStop(s)
  /\ UNCHANGED <<genVars, calls, now, ticks, resp, rate_limit_map, active_clones, clone_semaphore,
                 sem_waiters, nextId, client_ip, sandbox_task, files, upIdx, dev_sandbox,
                 polls, fix_attempt, err_file, status_queue, readPos, envVars, proxyVars>>

(* -------------- the proxy: proxy_sandbox, _recreate_sandbox ----------- *)
\* a variant for C9: the age is not looked at
IsStale_Never(id) == FALSE

\* clone.py:789-794  time.time() - created_at > SANDBOX_MAX_AGE
IsStale(id) == sandbox_urls[id] # NoEntry /\ now - sandbox_urls[id].at > SANDBOX_MAX_AGE

\* a variant for C40: no request creates a recreation task
Triggers_Never(id) == FALSE

\* clone.py:803-804, 817-818, 826-827  if clone_id not in _recreating: create_task(...)
Triggers(id) == id \notin recreating

ScheduledAfterTrigger(id) ==
  IF Triggers(id) THEN [rec_scheduled EXCEPT ![id] = @ + 1] ELSE rec_scheduled

\* history: a task created while none is waiting opens a new count of setups
AttemptsAfterTrigger(id) ==
  IF Triggers(id) /\ rec_scheduled[id] = 0 THEN [rec_attempts EXCEPT ![id] = 0]
  ELSE rec_attempts

\* history: the reason is noted when an address is actually removed
DroppedAfter(id, why) ==
  IF sandbox_urls[id] # NoEntry THEN [dropped EXCEPT ![id] = why] ELSE dropped

\* the model follows a request only while the tasks it creates stay within the bound
WithinTaskBound(id) == Triggers(id) => rec_scheduled[id] < MaxRecTasks

\* a variant for C20: the mark of failure is not looked at
PermanentlyFailed_Never(id) == FALSE

\* clone.py:798  clone_id in _recreation_failed
PermanentlyFailed(id) == id \in recreation_failed

LoadingPage == [code |-> 200, body |-> "loading"]
CannotRecreatePage == [code |-> 404, body |-> "cannot_recreate"]

\* clone.py:786-813: a proxy request up to its answer or to the forwarded GET
ProxyRequest(id) ==
  /\ pc[id] # "none"
  /\ IF sandbox_urls[id] = NoEntry \/ IsStale(id)
       THEN /\ sandbox_urls' = [sandbox_urls EXCEPT ![id] = NoEntry]
            /\ dropped' = DroppedAfter(id, "stale")
            /\ IF PermanentlyFailed(id)
                 THEN /\ resp' = CannotRecreatePage
                      /\ UNCHANGED <<rec_scheduled, rec_attempts>>
                 ELSE /\ WithinTaskBound(id)
                      /\ resp' = LoadingPage
                      /\ rec_scheduled' = ScheduledAfterTrigger(id)
                      /\ rec_attempts' = AttemptsAfterTrigger(id)
            /\ UNCHANGED inflight
       ELSE /\ inflight[id][sandbox_urls[id].url] < MaxInflight
            /\ inflight' = [inflight EXCEPT ![id][sandbox_urls[id].url] = @ + 1]
            /\ UNCHANGED <<resp, sandbox_urls, rec_scheduled, rec_attempts, dropped>>
  /\ UNCHANGED <<genVars, calls, now, ticks, admVars, taskVars, streamVars, sandbox_instances, provider,
                 nextSandbox, storage, sandbox_fs, recreating, recreation_failed, rec_running>>

\* what the sandbox can answer: a transport failure (0) or a status code
ForwardOutcomes == {0, 200, 404, 500, 502, 503, 504}
ContentTypes == {"html", "js", "other"}

\* a variant for C8: only 502 counts as a dead sandbox
IsGatewayFailure_Only502(status) == status = 0 \/ status = 502

\* clone.py:814, 823  the forward failed or the status is a gateway error
IsGatewayFailure(status) == status = 0 \/ status \in {502, 503, 504}

\* clone.py:837-849  the status code of the relayed response
RelayedCode(status, ctype) == IF ctype = "js" THEN 200 ELSE status

\* a body the dev server sends, as the pieces the proxy tells apart: a
\* reference to the asset root after a double quote, text that holds none, and
\* a reference after a single quote
UpstreamBody == << "\"/_next/", "text", "'/_next/" >>

\* a variant for C21: the body is handed on as it came
RewrittenPiece_Same(piece) == piece

\* clone.py:839-840, 845-846  body.replace('"/_next/', f'"{proxy_base}/_next/')
\* and the same after a single quote; proxy_base is /api/sandbox/{clone_id}
RewrittenPiece(piece) ==
  IF piece = "\"/_next/" THEN "\"/api/sandbox/{clone_id}/_next/"
  ELSE IF piece = "'/_next/" THEN "'/api/sandbox/{clone_id}/_next/"
  ELSE piece

\* clone.py:837-849  the body of the relayed response: HTML and javascript are
\* rewritten, every other content type passes as it came
RelayedBody(body, ctype) ==
  IF ctype \in {"html", "js"} THEN [j \in 1..Len(body) |-> RewrittenPiece(body[j])]
  ELSE body

\* clone.py:814-849: the forwarded GET to target h returned
ProxyAnswer(id, h, status, ctype) ==
  /\ inflight[id][h] > 0
  /\ inflight' = [inflight EXCEPT ![id][h] = @ - 1]
  /\ IF IsGatewayFailure(status)
       THEN /\ WithinTaskBound(id)
            /\ sandbox_urls' = [sandbox_urls EXCEPT ![id] = NoEntry]
            /\ dropped' = DroppedAfter(id, "failed")
            /\ rec_scheduled' = ScheduledAfterTrigger(id)
            /\ rec_attempts' = AttemptsAfterTrigger(id)
            /\ resp' = LoadingPage
       ELSE /\ resp' = [code |-> RelayedCode(status, ctype), body |-> "relay",
                       refs |-> RelayedBody(UpstreamBody, ctype)]
            /\ UNCHANGED <<sandbox_urls, rec_scheduled, rec_attempts, dropped>>
  /\ UNCHANGED <<genVars, calls, now, ticks, admVars, taskVars, streamVars, sandbox_instances, provider,
                 nextSandbox, storage, sandbox_fs, recreating, recreation_failed, rec_running>>

\* a variant for C10: a recreation starts whatever the flag says
AlreadyRecreating_Never(id) == FALSE

\* clone.py:698-699  the guard of _recreate_sandbox
AlreadyRecreating(id) == id \in recreating

\* clone.py:704-728  get_supabase() gives no client, listing raises, or files are listed
StorageOutcomes == {"no_client", "raises", "listed"}

\* one running attempt: the sandbox start_dev_server captured and its polls so far
Attempt(id, h, n) == [id |-> id, sandbox |-> h, polls |-> n]

\* clone.py:696-751 and sandbox.py:200-220: a _recreate_sandbox task runs from
\* its start to its return or to the first sleep of start_dev_server
RecreateStart(id, st, setup, execOk) ==
  /\ rec_scheduled[id] > 0
  /\ rec_scheduled' = [rec_scheduled EXCEPT ![id] = @ - 1]
  /\ IF AlreadyRecreating(id) \/ st # "listed"
       THEN UNCHANGED <<recreating, recreation_failed, rec_running, sandbox_instances,
                        provider, nextSandbox, sandbox_fs, rec_attempts>>
     ELSE IF storage[id] = << >>                  \* clone.py:730-733
       THEN /\ recreation_failed' = recreation_failed \cup {id}
            /\ UNCHANGED <<recreating, rec_running, sandbox_instances, provider, nextSandbox,
                           sandbox_fs, rec_attempts>>
     ELSE /\ rec_attempts' = [rec_attempts EXCEPT ![id] = IF @ < MaxAttemptsSeen THEN @ + 1 ELSE @]
          /\ IF ~SetupResult(id, setup)          \* clone.py:744-746
               THEN /\ SetupSandboxShell(id, setup)
                    /\ UNCHANGED <<recreating, recreation_failed, rec_running>>
             ELSE IF ~execOk                      \* sandbox.py:254-257
               THEN /\ sandbox_instances' = [sandbox_instances EXCEPT ![id] = None]
                    /\ nextSandbox' = [nextSandbox EXCEPT ![id] = @ + 1]
                    /\ sandbox_fs' = [sandbox_fs EXCEPT ![id] = {}]
                    /\ UNCHANGED <<recreating, recreation_failed, rec_running, provider>>
             ELSE /\ sandbox_instances' = InstancesAfterSetup(id, setup)
                  /\ provider' = ProviderAfterSetup(id, setup)
                  /\ nextSandbox' = [nextSandbox EXCEPT ![id] = @ + 1]
                  /\ sandbox_fs' =                 \* clone.py:748-749, uploads taken to succeed
                       [sandbox_fs EXCEPT ![id] = {storage[id][i] : i \in 1..Len(storage[id])}]
                  /\ recreating' = recreating \cup {id}
                  /\ rec_running' = rec_running \cup {Attempt(id, nextSandbox[id], 0)}
                  /\ UNCHANGED recreation_failed
  /\ UNCHANGED <<genVars, calls, now, ticks, resp, admVars, taskVars, streamVars, sandbox_urls, storage,
                 inflight, dropped>>

\* sandbox.py:219-257 and clone.py:751-760: one readiness poll of a running
\* attempt; when start_dev_server returns, the task records or gives up and
\* clears the flag
RecreatePoll(a, ready, linkOk) ==
  /\ a \in rec_running
  /\ IF ready /\ linkOk
       THEN /\ sandbox_urls' = UrlsAfterServing(a.id, a.sandbox)
            /\ rec_running' = rec_running \ {a}
            /\ recreating' = recreating \ {a.id}
            /\ UNCHANGED <<sandbox_instances, provider, sandbox_fs>>
       ELSE IF ready \/ LastPoll(a.polls)
         THEN /\ DevServerCleanup(a.id)
              /\ rec_running' = rec_running \ {a}
              /\ recreating' = recreating \ {a.id}
              /\ UNCHANGED sandbox_urls
       ELSE /\ rec_running' = (rec_running \ {a}) \cup {Attempt(a.id, a.sandbox, a.polls + 1)}
            /\ UNCHANGED <<sandbox_urls, sandbox_instances, provider, sandbox_fs, recreating>>
  /\ UNCHANGED <<genVars, calls, now, ticks, resp, admVars, taskVars, streamVars, nextSandbox, storage,
                 recreation_failed, rec_scheduled, inflight, rec_attempts, dropped>>

\* clone.py:763-776: DELETE /api/sandbox/{id} and POST /api/sandbox/{id}/end
delete_sandbox(id) ==
  /\ pc[id] # "none"
  /\ sandbox_urls' = [sandbox_urls EXCEPT ![id] = NoEntry]
  /\ dropped' = DroppedAfter(id, "deleted")
  /\ DevServerCleanup(id)
  /\ resp' = [code |-> 200, body |-> "ok"]
  /\ UNCHANGED <<genVars, calls, now, ticks, admVars, taskVars, streamVars, nextSandbox, storage, recreating,
                 recreation_failed, rec_scheduled, rec_running, inflight, rec_attempts>>

(* ------------- parallel generation: services/ai_generator.py ---------- *)
\* ai_generator.py:662-673  _determine_agent_count
DetermineAgentCount(n) ==
  IF n <= 1 THEN 1
  ELSE IF n <= 2 THEN 2
  ELSE IF n <= 4 THEN 3
  ELSE IF n <= 6 THEN 4
  ELSE IF n < MAX_PARALLEL_AGENTS THEN n ELSE MAX_PARALLEL_AGENTS

\* a variant for C14: the remainder is handed to nobody
PartitionCount_Base(n, k, a) == n \div k

\* a variant for C27: the remainder goes to the last agents
PartitionCount_Late(n, k, a) == (n \div k) + (IF a >= k - (n % k) THEN 1 ELSE 0)

\* ai_generator.py:696-701  count = base_count + (1 if a < remainder else 0), a from 0
PartitionCount(n, k, a) == (n \div k) + (IF a < n % k THEN 1 ELSE 0)

\* ai_generator.py:698-703  partitions: (idx, idx + count) for a, a+1, ..., k-1
RECURSIVE PartitionsFrom(_, _, _, _)
PartitionsFrom(n, k, a, idx) ==
  IF a = k THEN << >>
  ELSE << <<idx, idx + PartitionCount(n, k, a)>> >>
       \o PartitionsFrom(n, k, a + 1, idx + PartitionCount(n, k, a))

\* a variant for C26: no screenshot of the previous agent is included
OverlapStart_None(part, a) == part[1]

\* ai_generator.py:709  overlap_start
OverlapStart(part, a) == IF a > 0 THEN part[1] - 1 ELSE part[1]

\* ai_generator.py:711-712  overlap_end, cut at n
OverlapEnd(part, a, k, n) ==
  LET e == IF a < k - 1 THEN part[2] + 1 ELSE part[2]
  IN IF e < n THEN e ELSE n

\* a Python slice seq[lo:hi] of the list of snapshot indices 0..n-1
Slice(lo, hi) == [j \in 1..(IF hi > lo THEN hi - lo ELSE 0) |-> lo + j - 1]

\* ai_generator.py:714  ss_assignments: screenshots[overlap_start:overlap_end],
\* a screenshot standing for its index in the scrape
AssignedScreens(n, k) ==
  LET parts == PartitionsFrom(n, k, 0, 0)
  IN [i \in 1..k |-> Slice(OverlapStart(parts[i], i - 1), OverlapEnd(parts[i], i - 1, k, n))]

\* scraper.py:722-739  scroll_positions of a page captured viewport by
\* viewport with the stride of line 725: the offset of snapshot j is j
\* viewports down, j from 0
ScrollPositions(n) == [j \in 1..n |-> (j - 1) * VIEWPORT_HEIGHT]

\* a Python slice q[lo:hi] of a list, positions counted from 0 and cut at its end
SliceOf(q, lo, hi) ==
  LET e == IF hi < Len(q) THEN hi ELSE Len(q)
  IN [j \in 1..(IF e > lo THEN e - lo ELSE 0) |-> q[lo + j]]

\* ai_generator.py:715  pos_assignments: positions[overlap_start:overlap_end]
AssignedPositions(n, k) ==
  LET parts == PartitionsFrom(n, k, 0, 0)
  IN [i \in 1..k |->
        SliceOf(ScrollPositions(n), OverlapStart(parts[i], i - 1),
                OverlapEnd(parts[i], i - 1, k, n))]

\* ai_generator.py:717-720  core_ranges: offsets into the agent's own list
CoreRanges(n, k) ==
  LET parts == PartitionsFrom(n, k, 0, 0)
  IN [i \in 1..k |->
        << parts[i][1] - OverlapStart(parts[i], i - 1),
           (parts[i][1] - OverlapStart(parts[i], i - 1)) + (parts[i][2] - parts[i][1]) >>]

\* The paths of the generation workload.  A path is its directories, the file
\* name without its extension, and the extension.
PagePath == [dir |-> << "app" >>, name |-> "page", ext |-> ".tsx"]
NavbarPath == [dir |-> << "components" >>, name |-> "Navbar", ext |-> ".tsx"]
FooterPath == [dir |-> << "components" >>, name |-> "Footer", ext |-> ".tsx"]
SectionPath == [dir |-> << "components" >>, name |-> "hero-section", ext |-> ".tsx"]
UtilsPath == [dir |-> << "lib" >>, name |-> "utils", ext |-> ".ts"]
Paths == {PagePath, NavbarPath, FooterPath, SectionPath, UtilsPath}

\* the names of the workload that the pattern \w+ matches whole
WordNames == {"page", "Navbar", "Footer", "utils", "Sidebar"}
\* the names whose lower case holds one of "nav", "header", "menu", "topbar"
NavNames == {"Navbar"}
\* the names whose lower case holds one of "footer", "bottom"
FooterNames == {"Footer"}

\* ai_generator.py:752  path == "app/page.tsx"
IsPage(path) == path = PagePath

\* ai_generator.py:764, 1420  path.startswith("components/") and path.count("/") == 1
IsComponent(path) == Len(path.dir) = 1 /\ path.dir[1] = "components"

\* ai_generator.py:765, 1421  the path without "components/", ".tsx" and ".jsx"
\* (every component path of the workload ends in one of the two)
CompName(path) == path.name

\* every sequence over S of length at most k
SeqsUpTo(S, k) == UNION {[1..m -> S] : m \in 0..k}

\* what parse_multi_file_output can give one agent (ai_generator.py:609-657)
AgentFiles == SeqsUpTo(Paths, MaxFiles)

\* ai_generator.py:761  f["_agent"] = agent_idx + 1
Tagged(fs, agent) == [j \in 1..Len(fs) |-> [path |-> fs[j], agent |-> agent]]

\* ai_generator.py:745-762  all_component_files: every file of every agent in
\* agent order, page.tsx copies left out, duplicates kept
RECURSIVE StitchedFrom(_, _)
StitchedFrom(results, i) ==
  IF i > Len(results) THEN << >>
  ELSE SelectSeq(Tagged(results[i].files, i), LAMBDA f : ~IsPage(f.path))
       \o StitchedFrom(results, i + 1)

StitchedFiles(results) == StitchedFrom(results, 1)

\* ai_generator.py:764-767  component_order: (comp_name, import_path, agent_num);
\* import_path is "@/components/" + comp_name
ComponentOrder(results) ==
  LET comps == SelectSeq(StitchedFiles(results), LAMBDA f : IsComponent(f.path))
  IN [j \in 1..Len(comps) |->
        [name |-> CompName(comps[j].path), from |-> CompName(comps[j].path),
         agent |-> comps[j].agent]]

\* ai_generator.py:985-993 (and 828-833, 1417-1422): the names in the order of
\* their first occurrence
RECURSIVE FirstOccurrences(_)
FirstOccurrences(names) ==
  IF names = << >> THEN << >>
  ELSE LET rest == FirstOccurrences(SelectSeq(Tail(names), LAMBDA x : x # Head(names)))
       IN << Head(names) >> \o rest

NamesOf(order) == [j \in 1..Len(order) |-> order[j].name]

\* a variant for C17: no name is skipped
FallbackNames_All(order) == NamesOf(order)

\* ai_generator.py:985-991  the names _fallback_page keeps: a name already
\* seen is skipped
FallbackNames(order) == FirstOccurrences(NamesOf(order))

\* ai_generator.py:983-1006  _fallback_page: one import line and one render
\* line per name, first occurrence first
FallbackPage(order) ==
  LET names == FallbackNames(order)
  IN [imports |-> [j \in 1..Len(names) |-> [name |-> names[j], from |-> names[j]]],
      renders |-> names,
      by |-> "fallback"]

\* ai_generator.py:949, 1415
\* re.findall(r'import\s+(\w+)\s+from\s+["\']@/components/\w+["\']', page):
\* the names of the import lines whose name and whose file are words
ImportedNames(page) ==
  {page.imports[j].name : j \in {i \in 1..Len(page.imports) :
      page.imports[i].name \in WordNames /\ page.imports[i].from \in WordNames}}

\* ai_generator.py:947-966  the assembler's page passes validation
PageValid(page, order) ==
  LET valid_names == {order[j].name : j \in 1..Len(order)}
  IN /\ ImportedNames(page) \ valid_names = {}
     /\ valid_names \ ImportedNames(page) = {}

\* ai_generator.py:915-980  _assemble_page's result: the call raised, the reply
\* was empty, or the model wrote a page
AssembledPage(reply, order) ==
  IF reply.by \in {"raises", "empty"} THEN FallbackPage(order)
  ELSE IF PageValid(reply, order) THEN reply
  ELSE FallbackPage(order)

\* the pages the assembler's model writes for a component order: the unique
\* names last first, the same with a component nobody wrote, the same without
\* the first name, the same with the first name imported a second time
ImportLines(names) == [j \in 1..Len(names) |-> [name |-> names[j], from |-> names[j]]]
Reverse(q) == [j \in 1..Len(q) |-> q[Len(q) + 1 - j]]
WrittenPage(names) == [imports |-> ImportLines(names), renders |-> names, by |-> "assembler"]
AssemblerReplies(order) ==
  LET names == Reverse(FirstOccurrences(NamesOf(order)))
  IN {[NoPage EXCEPT !.by = "raises"], [NoPage EXCEPT !.by = "empty"],
      WrittenPage(names), WrittenPage(names \o << "Sidebar" >>)}
     \cup (IF names = << >> THEN {}
           ELSE {WrittenPage(Tail(names)),
                 [WrittenPage(names) EXCEPT !.imports = ImportLines(names \o << Head(names) >>)]})

\* ai_generator.py:1430-1446  the version kept of a component several files
\* carry: min / max over range(len(versions)) keyed by the agent, the first
\* index among equals
IsNavName(name) == name \in NavNames
KeptAgent(name, versions) ==
  LET agents == {versions[j].agent : j \in 1..Len(versions)}
  IN IF IsNavName(name)
       THEN CHOOSE a \in agents : \A b \in agents : a <= b
       ELSE IF name \in FooterNames
         THEN CHOOSE a \in agents : \A b \in agents : a >= b
       ELSE CHOOSE a \in agents : \A b \in agents : a >= b
Best(name, versions) ==
  IF Len(versions) = 1 THEN versions[1]
  ELSE versions[CHOOSE j \in 1..Len(versions) :
                  /\ versions[j].agent = KeptAgent(name, versions)
                  /\ \A i \in 1..(j - 1) : versions[i].agent # KeptAgent(name, versions)]

\* ai_generator.py:1417-1422  name_to_files[comp_name]
Versions(component_files, name) ==
  SelectSeq(component_files, LAMBDA f : IsComponent(f.path) /\ CompName(f.path) = name)

\* ai_generator.py:1426-1448  chosen_files: one file per imported name, in the
\* order the names first occur
ChosenFiles(component_files, page) ==
  LET comps == SelectSeq(component_files, LAMBDA f : IsComponent(f.path))
      names == FirstOccurrences([j \in 1..Len(comps) |-> CompName(comps[j].path)])
      kept == SelectSeq(names, LAMBDA x : x \in ImportedNames(page))
  IN [j \in 1..Len(kept) |-> Best(kept[j], Versions(component_files, kept[j]))]

\* ai_generator.py:1423-1424  non_component_files
NonComponentFiles(component_files) ==
  SelectSeq(component_files, LAMBDA f : ~IsComponent(f.path))

\* ai_generator.py:1450  all_files; the page is the assembler's (agent 0)
AllFiles(component_files, page) ==
  << [path |-> PagePath, agent |-> 0] >>
  \o ChosenFiles(component_files, page)
  \o NonComponentFiles(component_files)

\* the event a worker's on_status call leaves on the queue is named by its
\* "status" ("generating", "section_complete") or, without one, by its "type"
PlannerReplies == {"raises", "unparseable", "array", "object_partial", "object"}

\* ai_generator.py:1245  plan.get(agent_key, []): only a JSON object has get,
\* any other JSON value raises AttributeError out of _plan_components
PlanRaises(reply) == reply = "array"

\* ai_generator.py:1221-1249  assignments: empty lists when the call raised or
\* the text did not parse, else per agent the list under its key ("object")
\* or, for a value that is not a list or a missing key, the empty list
\* ("object_partial": agent 1's value is not a list)
PlannedAssignments(reply, k) ==
  [i \in 1..k |->
     IF reply \in {"raises", "unparseable"} THEN << >>
     ELSE IF reply = "object_partial" /\ i = 1 THEN << >>
     ELSE << "Navbar" >>]

\* ai_generator.py:1254-1258  the planner's closing message
PlanEvents(reply) == IF reply \in {"object_partial", "object"} THEN << "generating" >> ELSE << >>

\* ai_generator.py:1027-1034  agent_start of each of the k tasks gather starts
StartEvents(k) == [i \in 1..k |-> "generating"]

Pending == [status |-> "pending", files |-> << >>]

\* clone.py:314-381 with ai_generator.py:1497-1510, 1285-1308 and 1173-1220:
\* the scrape returned n screenshots; the sandbox task is created and
\* generate_clone runs to its first model call, the planner's with several
\* agents
Capture(s, n) ==
  /\ pc[s] = "scrape"
  /\ Put(s, << "screenshot", "generating", "generating", "generating" >>)
  /\ sandbox_task' = [sandbox_task EXCEPT ![s] = "pending"]
  /\ pc' = [pc EXCEPT ![s] = "generate"]
  /\ num_screens' = n
  /\ num_agents' = DetermineAgentCount(n)
  /\ IF DetermineAgentCount(n) > 1
       THEN /\ ss_per_agent' = AssignedScreens(n, DetermineAgentCount(n))
            /\ pos_per_agent' = AssignedPositions(n, DetermineAgentCount(n))
            /\ core_ranges' = CoreRanges(n, DetermineAgentCount(n))
            /\ gen_pc' = "plan"
            /\ Issued(s, "planner")
       ELSE /\ gen_pc' = "single"
            /\ Issued(s, "single")
            /\ UNCHANGED <<ss_per_agent, pos_per_agent, core_ranges>>
  /\ UNCHANGED <<now, ticks, resp, admVars, client_ip, files, upIdx, dev_sandbox, polls,
                 fix_attempt, err_file, readPos, reader, envVars, proxyVars,
                 component_assignments, agent_pc, agent_out, done_order, agent_results,
                 page_content, agent_calls>>

\* clone.py:382-386: generate_clone raised
GenerationRaised(s) ==
  /\ sandbox_task' = [sandbox_task EXCEPT ![s] = Cancelled(@)]
  /\ ErrorReturn(s, << >>)
  /\ gen_pc' = "raised"

\* ai_generator.py:1213-1260 and 1310-1348, 1023-1060: the planner's call
\* returned or raised; the prompts are built and gather starts the agents, each
\* up to its model call
PlanDone(s, reply) ==
  /\ pc[s] = "generate"
  /\ gen_pc = "plan"
  /\ sandbox_task[s] # "pending"
  /\ IF PlanRaises(reply)
       THEN /\ GenerationRaised(s)
            /\ UNCHANGED <<component_assignments, agent_pc, agent_out, agent_calls>>
       ELSE /\ component_assignments' = PlannedAssignments(reply, num_agents)
            /\ agent_pc' = [i \in 1..num_agents |-> "call"]
            /\ agent_out' = [i \in 1..num_agents |-> Pending]
            /\ agent_calls' = [i \in 1..num_agents |-> [gen |-> 1, cont |-> 0]]
            /\ gen_pc' = "agents"
            /\ Put(s, PlanEvents(reply) \o StartEvents(num_agents))
            /\ UNCHANGED <<pc, sandbox_task, clone_semaphore, active_clones>>
  /\ UNCHANGED <<now, ticks, resp, rate_limit_map, sem_waiters, clone_queues, nextId,
                 client_ip, files, upIdx, dev_sandbox, polls, fix_attempt, err_file,
                 readPos, reader, envVars, proxyVars, num_screens, num_agents,
                 ss_per_agent, core_ranges, done_order, agent_results, page_content,
                 pos_per_agent, calls>>

AgentOutcomes == {"error", "raises", "empty", "files"}

\* replies whose finish_reason is "length": with text, and without any
LengthOutcomes == {"truncated", "empty_length"}

\* a variant for C29: every length-limited reply is continued
NeedsContinuation_AnyLength(outcome) == outcome \in LengthOutcomes

\* ai_generator.py:1094  finish_reason == "length" and raw_output
NeedsContinuation(outcome) == outcome = "truncated"

\* ai_generator.py:1058-1154  what the task of agent i ends with, None while
\* it goes on: the call failed (once: it retries after its sleep; twice: an
\* empty result), the task raised, the reply was empty, or the reply parsed
\* into fs
AgentResult(at, outcome, fs) ==
  IF outcome = "error" THEN (IF at = "call" THEN Pending ELSE [status |-> "failed", files |-> << >>])
  ELSE IF outcome = "raises" THEN [status |-> "raised", files |-> << >>]
  ELSE IF outcome \in {"empty", "empty_length"} THEN [status |-> "ok", files |-> << >>]
  ELSE [status |-> "ok", files |-> fs]

\* ai_generator.py:1070-1084, 1096-1100, 1135-1151  what the agent puts on the queue
AgentEvents(outcome, fs) ==
  IF outcome = "error" THEN << "generating" >>
  ELSE IF outcome = "files" THEN << "section_complete" >> \o [j \in 1..Len(fs) |-> "file_write"]
  ELSE << >>

\* history: agent i sends a generation call ("gen") or a continuation ("cont")
AgentIssued(i, kind) == agent_calls' = [agent_calls EXCEPT ![i][kind] = @ + 1]

\* ai_generator.py:1057-1154: the generation call of agent i returned or
\* raised.  A first failure is followed by the sleep of 3 s and the second
\* call; a reply to be continued is held (raw_output, here the status of
\* agent_out) and handed back with the continuation call (1092-1110); else
\* the task ends.
AgentStep(s, i, outcome, fs) ==
  /\ pc[s] = "generate"
  /\ gen_pc = "agents"
  /\ agent_pc[i] \in {"call", "retry"}
  /\ outcome # "files" => fs = << >>
  /\ LET result == AgentResult(agent_pc[i], outcome, fs)
     IN IF result = Pending
          THEN /\ agent_pc' = [agent_pc EXCEPT ![i] = "retry"]
               /\ AgentIssued(i, "gen")
               /\ Put(s, AgentEvents(outcome, fs))
               /\ UNCHANGED <<agent_out, done_order>>
          ELSE IF NeedsContinuation(outcome)
            THEN /\ agent_pc' = [agent_pc EXCEPT ![i] = "cont"]
                 /\ agent_out' = [agent_out EXCEPT ![i] = [status |-> outcome, files |-> << >>]]
                 /\ AgentIssued(i, "cont")
                 /\ Put(s, << "generating" >>)
                 /\ UNCHANGED done_order
          ELSE /\ agent_pc' = [agent_pc EXCEPT ![i] = "done"]
               /\ agent_out' = [agent_out EXCEPT ![i] = result]
               /\ done_order' = Append(done_order, i)
               /\ Put(s, AgentEvents(outcome, fs))
               /\ UNCHANGED agent_calls
  /\ UNCHANGED <<now, ticks, resp, admVars, pc, client_ip, sandbox_task, files, upIdx,
                 dev_sandbox, polls, fix_attempt, err_file, readPos, reader, envVars,
                 proxyVars, num_screens, num_agents, ss_per_agent, core_ranges, gen_pc,
                 component_assignments, agent_results, page_content, pos_per_agent, calls>>

\* what the continuation call does: it raises, returns nothing, or returns more text
ContOutcomes == {"error", "empty", "more"}

\* ai_generator.py:1101-1154: the continuation call of agent i returned or
\* raised; the text at hand (the cut reply, with the continuation if one came)
\* parses into fs and the task ends
AgentCont(s, i, outcome, fs) ==
  /\ pc[s] = "generate"
  /\ gen_pc = "agents"
  /\ agent_pc[i] = "cont"
  /\ agent_pc' = [agent_pc EXCEPT ![i] = "done"]
  /\ agent_out' = [agent_out EXCEPT ![i] = [status |-> "ok", files |-> fs]]
  /\ done_order' = Append(done_order, i)
  /\ Put(s, AgentEvents("files", fs))
  /\ UNCHANGED <<now, ticks, resp, admVars, pc, client_ip, sandbox_task, files, upIdx,
                 dev_sandbox, polls, fix_attempt, err_file, readPos, reader, envVars,
                 proxyVars, num_screens, num_agents, ss_per_agent, core_ranges, gen_pc,
                 component_assignments, agent_results, page_content, pos_per_agent,
                 agent_calls, calls>>

\* a variant for C15: gather hands on the first exception of a task
GatherRaises_First(outs) == \E i \in 1..Len(outs) : outs[i].status = "raised"

\* ai_generator.py:1348  gather(*tasks, return_exceptions=True) raises nothing
\* of what the tasks raise
GatherRaises(outs) == FALSE

\* a variant for C13: the results stand in the order the tasks finished
Gathered_ByCompletion(outs, order) == [j \in 1..Len(outs) |-> outs[order[j]]]

\* ai_generator.py:1348  gather returns the results in the order of the tasks
\* it was given, whatever the order they finished in
Gathered(outs, order) == outs

\* ai_generator.py:1350-1357  clean_results: an exception becomes an empty result
CleanResults(results) ==
  [i \in 1..Len(results) |->
     IF results[i].status = "raised" THEN [status |-> "ok", files |-> << >>]
     ELSE results[i]]

\* ai_generator.py:1348-1366 and 803-917: every agent task is done, gather
\* returns; the results are cleaned and stitched and the assembler's call begins
GatherDone(s) ==
  /\ pc[s] = "generate"
  /\ gen_pc = "agents"
  /\ \A i \in 1..num_agents : agent_pc[i] = "done"
  /\ IF GatherRaises(agent_out)
       THEN /\ GenerationRaised(s)
            /\ UNCHANGED <<agent_results, calls>>
       ELSE /\ agent_results' = CleanResults(Gathered(agent_out, done_order))
            /\ gen_pc' = "assemble"
            /\ Issued(s, "assembler")
            /\ Put(s, << "generating", "generating" >>)
            /\ UNCHANGED <<pc, sandbox_task, clone_semaphore, active_clones>>
  /\ UNCHANGED <<now, ticks, resp, rate_limit_map, sem_waiters, clone_queues, nextId,
                 client_ip, files, upIdx, dev_sandbox, polls, fix_attempt, err_file,
                 readPos, reader, envVars, proxyVars, num_screens, num_agents,
                 ss_per_agent, core_ranges, component_assignments, agent_pc, agent_out,
                 done_order, page_content, pos_per_agent, agent_calls>>

\* ai_generator.py:968-978  the messages of an accepted page
AssemblerEvents(page) ==
  IF page.by = "assembler" THEN << "generating", "file_write" >> ELSE << >>

\* ai_result["files"]: each file with the agent whose text it holds (0: the
\* assembler) as its content
ResultFiles(fs) == [j \in 1..Len(fs) |-> [path |-> fs[j].path, content |-> fs[j].agent]]

\* ai_generator.py:915-980, 1400-1472 and clone.py:388-420: the assembler's
\* call returned or raised; the page is validated or replaced, the files are
\* deduplicated, generate_clone returns and _run_clone goes on to the first
\* upload
AssembleDone(s, reply, ok) ==
  /\ pc[s] = "generate"
  /\ gen_pc = "assemble"
  /\ LET order == ComponentOrder(agent_results)
         page == AssembledPage(reply, order)
         fs == ResultFiles(AllFiles(StitchedFiles(agent_results), page))
     IN /\ page_content' = page
        /\ gen_pc' = "returned"
        /\ IF fs = << >>                            \* clone.py:393-396
             THEN /\ sandbox_task' = [sandbox_task EXCEPT ![s] = Cancelled(@)]
                  /\ ErrorReturn(s, AssemblerEvents(page))
                  /\ UNCHANGED <<files, upIdx, sandbox_fs>>
           ELSE IF sandbox_task[s] # "true"         \* clone.py:405-408
             THEN /\ ErrorReturn(s, AssemblerEvents(page) \o << "deploying" >>)
                  /\ files' = [files EXCEPT ![s] = fs]
                  /\ UNCHANGED <<sandbox_task, upIdx, sandbox_fs>>
           ELSE /\ files' = [files EXCEPT ![s] = fs]  \* clone.py:410-420
                /\ upIdx' = [upIdx EXCEPT ![s] = 1]
                /\ Put(s, AssemblerEvents(page) \o << "deploying", "deploying" >>
                          \o UploadEvents(s, ok))
                /\ sandbox_fs' = FsAfterUpload(s, fs[1], ok)
                /\ pc' = [pc EXCEPT ![s] = "upload"]
                /\ UNCHANGED <<sandbox_task, clone_semaphore, active_clones>>
  /\ UNCHANGED <<now, ticks, resp, rate_limit_map, sem_waiters, clone_queues, nextId,
                 client_ip, dev_sandbox, polls, fix_attempt, err_file, readPos, reader,
                 sandbox_urls, sandbox_instances, provider, nextSandbox, storage, proxyVars, num_screens, num_agents, ss_per_agent, core_ranges,
                 component_assignments, agent_pc, agent_out, done_order, agent_results,
                 pos_per_agent, agent_calls, calls>>

\* ai_generator.py:1287  num_agents = _determine_agent_count(n), n given
DetermineAgents ==
  /\ num_screens > 0
  /\ num_agents = 0
  /\ num_agents' = DetermineAgentCount(num_screens)
  /\ UNCHANGED <<now, ticks, resp, admVars, taskVars, streamVars, envVars, proxyVars,
                 num_screens, ss_per_agent, core_ranges, gen_pc, component_assignments,
                 agent_pc, agent_out, done_order, agent_results, page_content,
                 pos_per_agent, agent_calls, calls>>

\* ai_generator.py:1299  _assign_screenshots_to_agents(screenshots, positions, num_agents)
AssignScreenshots ==
  /\ gen_pc = "idle"
  /\ num_agents > 0
  /\ ss_per_agent = << >>
  /\ ss_per_agent' = AssignedScreens(num_screens, num_agents)
  /\ pos_per_agent' = AssignedPositions(num_screens, num_agents)
  /\ core_ranges' = CoreRanges(num_screens, num_agents)
  /\ UNCHANGED <<now, ticks, resp, admVars, taskVars, streamVars, envVars, proxyVars,
                 num_screens, num_agents, gen_pc, component_assignments, agent_pc,
                 agent_out, done_order, agent_results, page_content, agent_calls, calls>>

(* --------------------------- specifications --------------------------- *)
\* the steps of the _run_clone task of session s once it holds the gate, over
\* every outcome of the calls it waits for
Pipeline(s) ==
  \/ \E o \in {"fail", "raise", "ok_raise", "ok"} : ScrapeDone(s, o)
  \/ \E o \in SetupOutcomes : SandboxTaskRun(s, o)
  \/ \E o \in {"raise", "nofiles", "files"}, ok \in BOOLEAN : GenerateDone(s, o, ok)
  \/ \E ok, execOk \in BOOLEAN : UploadNext(s, ok, execOk)
  \/ \E ready, linkOk \in BOOLEAN : StartPoll(s, ready, linkOk)
  \/ FixWake(s)
  \/ \E probe \in {"healthy", "unreachable"} \cup ErrorHints, p \in PersistOutcomes :
       FixProbe(s, probe, p)
  \/ \E ok \in BOOLEAN, p \in PersistOutcomes : FixCallDone(s, ok, p)

\* The same steps under one representative of every way _run_clone ends
\* (clone.py:331, 386, 396, 408, 429, 533, 537): the workload of the
\* specifications that run other activity beside the pipeline.
PipelineBrief(s) ==
  \/ \E o \in {"fail", "raise", "ok"} : ScrapeDone(s, o)
  \/ \E o \in {"install_fail", "ok"} : SandboxTaskRun(s, o)
  \/ \E o \in {"raise", "nofiles", "files"} : GenerateDone(s, o, TRUE)
  \/ \E execOk \in BOOLEAN : UploadNext(s, TRUE, execOk)
  \/ StartPoll(s, TRUE, TRUE)
  \/ FixWake(s)
  \/ \E p \in PersistOutcomes : FixProbe(s, "healthy", p)

\* clock steps of the admission workload: inside and at the rate window
AdmissionTicks == {RATE_LIMIT_SECONDS - 1, RATE_LIMIT_SECONDS}

\* Admission workload: every client may send clone requests at any time, the
\* pipelines run concurrently.
Next ==
  \/ \E c \in Clients : clone_website(c)
  \/ \E s \in CloneIds : RunCloneStart(s) \/ RunCloneResume(s) \/ PipelineBrief(s)
  \/ \E d \in AdmissionTicks : Tick(d)

Spec == Init /\ [][Next]_vars

\* Stream workload: one session, every outcome of its pipeline, and its reader.
NextStream ==
  \/ nextId = 1 /\ CloneAccept(1)
  \/ RunCloneStart(1)
  \/ Pipeline(1)
  \/ ReaderGet(1)
  \/ ReaderStop(1)

SpecStream == Init /\ [][NextStream]_vars

\* The stream workload with progress: every await of the pipeline returns
\* (the sleeps end, the probe's client has a timeout of 10 s, clone.py:234),
\* and the event loop then runs the task's next step.
SpecStreamLive == SpecStream /\ WF_vars(Pipeline(1))

\* clock steps of the proxy workload: up to the maximum age and beyond it
ProxyTicks == {SANDBOX_MAX_AGE, SANDBOX_MAX_AGE + 100}

\* a created task waits for its first step (clone.py:591, 351, 804)
TaskWaiting ==
  \/ \E s \in CloneIds : pc[s] = "scheduled" \/ sandbox_task[s] = "pending"
  \/ \E id \in CloneIds : rec_scheduled[id] > 0

\* Proxy workload: one clone id, its pipeline, and the preview traffic for it.
\* The event loop runs a created task on its next iteration, before the timers
\* and answers that tasks begin to wait for afterwards: handlers of requests
\* may run while a task waits, the wake-ups of suspended tasks may not. The
\* dev server of a recreation answers its first poll.
NextProxy ==
  \/ nextId = 1 /\ CloneAccept(1)
  \/ RunCloneStart(1)
  \/ SandboxTaskRun(1, "install_fail") \/ SandboxTaskRun(1, "ok")
  \/ ProxyRequest(1)
  \/ delete_sandbox(1)
  \/ \E h \in 1..MaxSandboxes, status \in ForwardOutcomes, ctype \in ContentTypes :
       ProxyAnswer(1, h, status, ctype)
  \/ \E st \in StorageOutcomes, setup \in SetupOutcomes, execOk \in BOOLEAN :
       RecreateStart(1, st, setup, execOk)
  \/ /\ ~TaskWaiting
     /\ \/ PipelineBrief(1)
        \/ \E a \in rec_running, linkOk \in BOOLEAN : RecreatePoll(a, TRUE, linkOk)
        \/ \E d \in ProxyTicks : Tick(d)

SpecProxy == Init /\ [][NextProxy]_vars

\* the provider can still hand out a sandbox to every recreation task that
\* waits and to one more
QuotaLeft == nextSandbox[1] + rec_scheduled[1] <= MaxSandboxes

\* the steps of a recreation whose calls succeed: the files are listed, the
\* sandbox is set up, the dev server starts and answers its first poll
RecreateRuns == RecreateStart(1, "listed", "ok", TRUE)
RecreateServes == ~TaskWaiting /\ \E a \in rec_running : RecreatePoll(a, TRUE, TRUE)

\* Recreation workload: one clone id, its pipeline, the preview traffic for it
\* with every answer of the sandbox, and recreations whose storage and
\* provider calls succeed.  Requests that would create a recreation task
\* arrive while the provider's quota lasts.  Scheduling as in the proxy
\* workload.
NextRecreate ==
  \/ nextId = 1 /\ CloneAccept(1)
  \/ RunCloneStart(1)
  \/ SandboxTaskRun(1, "ok")
  \/ /\ (sandbox_urls[1] = NoEntry \/ IsStale(1)) => QuotaLeft
     /\ ProxyRequest(1)
  \/ \E h \in 1..MaxSandboxes, status \in ForwardOutcomes, ctype \in ContentTypes :
       /\ IsGatewayFailure(status) => QuotaLeft
       /\ ProxyAnswer(1, h, status, ctype)
  \/ RecreateRuns
  \/ RecreateServes
  \/ /\ ~TaskWaiting
     /\ \/ PipelineBrief(1)
        \/ \E d \in ProxyTicks : Tick(d)

\* The event loop runs a created task on its next iteration, and the sleep
\* between two polls of start_dev_server ends (sandbox.py:219-236).
SpecRecreate ==
  /\ Init /\ [][NextRecreate]_vars
  /\ WF_vars(RecreateRuns)
  /\ WF_vars(RecreateServes)

\* Generation workload: one session whose scrape returns 1..MaxScreens
\* screenshots; every reply of the planner, of the section agents (in every
\* order of completion) and of the assembler.  The sandbox task, created
\* before generate_clone is called, has run when the first reply arrives.
NextGen ==
  \/ nextId = 1 /\ CloneAccept(1)
  \/ RunCloneStart(1)
  \/ \E n \in 1..MaxScreens : Capture(1, n)
  \/ \E o \in {"install_fail", "ok"} : SandboxTaskRun(1, o)
  \/ gen_pc = "single" /\ \E o \in {"raise", "nofiles", "files"} : GenerateDone(1, o, TRUE)
  \/ \E r \in PlannerReplies : PlanDone(1, r)
  \/ \E i \in 1..num_agents, o \in AgentOutcomes, fs \in AgentFiles : AgentStep(1, i, o, fs)
  \/ GatherDone(1)
  \/ \E r \in AssemblerReplies(ComponentOrder(agent_results)) : AssembleDone(1, r, TRUE)

SpecGen == Init /\ [][NextGen]_vars

\* what one agent's reply parses into in the call workload
CallFiles == {<< >>, << NavbarPath >>}

\* Call workload: one session and every model call it sends.  With two
\* screenshots or more: the planner, the section agents with every outcome of
\* their generation call (length-limited replies included) and of their
\* continuation call, and the assembler.  With one screenshot: the call of
\* generate_clone itself, then deployment and the auto-fix loop with its
\* repair calls.
NextCalls ==
  \/ nextId = 1 /\ CloneAccept(1)
  \/ RunCloneStart(1)
  \/ \E n \in 1..MaxScreens : Capture(1, n)
  \/ SandboxTaskRun(1, "ok")
  \/ \E r \in {"raises", "object"} : PlanDone(1, r)
  \/ \E i \in 1..num_agents, o \in AgentOutcomes \cup LengthOutcomes, fs \in CallFiles :
       AgentStep(1, i, o, fs)
  \/ \E i \in 1..num_agents, o \in ContOutcomes, fs \in CallFiles : AgentCont(1, i, o, fs)
  \/ GatherDone(1)
  \/ \E r \in AssemblerReplies(ComponentOrder(agent_results)) : AssembleDone(1, r, TRUE)
  \/ /\ gen_pc = "single"
     /\ \/ \E o \in {"raise", "nofiles", "files"} : GenerateDone(1, o, TRUE)
        \/ UploadNext(1, TRUE, TRUE)
        \/ StartPoll(1, TRUE, TRUE)
        \/ FixWake(1)
        \/ \E probe \in {"healthy"} \cup ErrorHints : FixProbe(1, probe, "stored")
        \/ \E ok \in BOOLEAN : FixCallDone(1, ok, "stored")

SpecCalls == Init /\ [][NextCalls]_vars

\* Assignment workload: the agent count and the screenshot assignment for
\* every number of screenshots up to MaxShots.
InitAssign == InitSession /\ num_screens \in 1..MaxShots /\ InitGeneration

NextAssign == DetermineAgents \/ AssignScreenshots

SpecAssign == InitAssign /\ [][NextAssign]_vars

(* ------------------------------- claims ------------------------------- *)
\* the sessions of client key c whose pipeline has been created and has not
\* yet run its cleanup
SessionsOf(c) == {s \in CloneIds : client_ip[s] = c /\ pc[s] \notin {"none", "finished"}}

\* the sessions holding a unit of the gate
Holders == {s \in CloneIds : pc[s] \notin {"none", "scheduled", "acquire", "finished"}}

\* the sessions admitted and not finished
Unfinished == {s \in CloneIds : pc[s] \notin {"none", "finished"}}

BusyError == [code |-> 429, body |-> "busy"]

\* C1: at most one session per client key is in flight; a clone request from
\* a key with a session in flight gets the busy error, starts no pipeline and
\* creates no queue; so a key is accepted again only after the cleanup of its
\* earlier session.
C1_SingleFlight ==
  [][\A c \in Clients :
       /\ Cardinality(SessionsOf(c)') <= 1
       /\ (SessionsOf(c) # {} /\ clone_website(c))
            => (resp' = BusyError /\ UNCHANGED <<pc, clone_queues, nextId, status_queue>>)]_vars

\* C1 witness: a key was accepted again after its first session finished, and
\* its request during the second session got the busy error
C1_Witness ==
  \E s1, s2 \in CloneIds :
    /\ client_ip[s1] = client_ip[s2]
    /\ pc[s1] = "finished"
    /\ s2 \in SessionsOf(client_ip[s2])
    /\ resp = BusyError

\* C2: no admitted session waits for the gate: no pipeline is blocked in the
\* acquire, and the admitted sessions not yet finished never outnumber the
\* units of the gate.
C2_NoSessionWaits ==
  /\ \A s \in CloneIds : pc[s] # "acquire"
  /\ Cardinality(Unfinished) <= MAX_CONCURRENT_CLONES

\* C3: every session holds exactly one unit from its acquire to its cleanup
\* and none afterwards, the in-flight mark of a key is set exactly while a
\* session of the key is unfinished, and the free count stays in
\* 0..MAX_CONCURRENT_CLONES.
C3_ReleasedOnce ==
  /\ clone_semaphore \in 0..MAX_CONCURRENT_CLONES
  /\ clone_semaphore + Cardinality(Holders) = MAX_CONCURRENT_CLONES
  /\ \A c \in Clients :
       IF active_clones[c] = None THEN SessionsOf(c) = {}
       ELSE SessionsOf(c) = {active_clones[c]}

\* C3 witness: one session ended with done, another with error, nothing is
\* held and no key is marked
C3_Witness ==
  /\ \E s1, s2 \in CloneIds :
       /\ pc[s1] = "finished" /\ pc[s2] = "finished"
       /\ \E i \in 1..Len(status_queue[s1]) : status_queue[s1][i] = "done"
       /\ \E i \in 1..Len(status_queue[s2]) : status_queue[s2][i] = "error"
  /\ clone_semaphore = MAX_CONCURRENT_CLONES
  /\ \A c \in Clients : active_clones[c] = None

\* how often event e is in the queue history q
RECURSIVE Count(_, _)
Count(q, e) == IF q = << >> THEN 0 ELSE (IF Head(q) = e THEN 1 ELSE 0) + Count(Tail(q), e)

TerminalEvents == {"done", "error"}

\* C4: a session's queue gets exactly one terminal sentinel, put by the
\* cleanup, wherever the pipeline stopped; before the cleanup it has none.
C4_OneSentinel ==
  \A s \in CloneIds :
    Count(status_queue[s], "_done") = IF pc[s] = "finished" THEN 1 ELSE 0

\* C4 witness: a pipeline that stopped after its files were generated and
\* uploaded (the dev server did not start) has its one sentinel
C4_Witness ==
  /\ pc[1] = "finished"
  /\ files[1] # << >>
  /\ upIdx[1] = Len(files[1])
  /\ sandbox_urls[1] = NoEntry
  /\ Count(status_queue[1], "_done") = 1

\* C5: of the events put before the sentinel exactly one is a terminal state
\* (done or error), and it is the last event before the sentinel; a pipeline
\* that has not ended has put none.
C5_OneTerminalState ==
  \A s \in CloneIds :
    LET q == status_queue[s]
        n == Len(q)
    IN IF pc[s] = "finished"
         THEN /\ n >= 2
              /\ q[n] = "_done"
              /\ q[n - 1] \in TerminalEvents
              /\ \A i \in 1..(n - 2) : q[i] \notin TerminalEvents
         ELSE \A i \in 1..n : q[i] \notin TerminalEvents

\* C5 witness: a session that ended with done after a repair round
C5_Witness ==
  /\ pc[1] = "finished"
  /\ fix_attempt[1] > 0
  /\ Len(status_queue[1]) >= 2
  /\ status_queue[1][Len(status_queue[1]) - 1] = "done"

\* C6: once the reader of a session has stopped, the pipeline is not stopped
\* with it: while it has not ended its next step is enabled, and when it has
\* ended it has released its unit, cleared the in-flight mark and put the
\* sentinel.
C6_ReaderStopHarmless ==
  \A s \in CloneIds :
    (reader[s] = "closed" /\ pc[s] # "none") =>
      IF pc[s] = "finished"
        THEN /\ clone_semaphore = MAX_CONCURRENT_CLONES
             /\ active_clones[client_ip[s]] = None
             /\ Count(status_queue[s], "_done") = 1
        ELSE ENABLED (RunCloneStart(s) \/ Pipeline(s))

\* C6 witness: the reader stopped before it had read anything; the pipeline
\* ended with done
C6_Witness ==
  /\ reader[1] = "closed"
  /\ readPos[1] = 0
  /\ pc[1] = "finished"
  /\ Count(status_queue[1], "done") = 1

\* the recreation attempts of id that wait in start_dev_server
RunningAttempts(id) == {a \in rec_running : a.id = id}

\* C7: for one id at most one recreation attempt executes at any instant, and
\* the tasks created by requests that arrive together run one recreation
\* between them.
C7_OneRecreation ==
  \A id \in CloneIds :
    /\ Cardinality(RunningAttempts(id)) <= 1
    /\ rec_attempts[id] <= 1

GatewayFailures == {0, 502, 503, 504}

\* C8: when the forward fails or the sandbox answers 502, 503 or 504 the
\* recorded address is removed, a recreation task is created unless the id is
\* flagged as recreating, and the answer is the interim page; no response
\* carries 502, 503 or 504.
C8_GatewayFailureMasked ==
  [][/\ resp'.code \notin {502, 503, 504}
     /\ \A id \in CloneIds, h \in 1..MaxSandboxes :
          inflight'[id][h] < inflight[id][h] =>
            \A status \in GatewayFailures, ctype \in ContentTypes :
              ProxyAnswer(id, h, status, ctype) =>
                /\ sandbox_urls'[id] = NoEntry
                /\ resp' = LoadingPage
                /\ rec_scheduled'[id] =
                     rec_scheduled[id] + (IF id \in recreating THEN 0 ELSE 1)]_vars

\* C8 witness: a failed forward removed the address, created a recreation task
\* and was answered with the interim page
C8_Witness ==
  /\ dropped[1] = "failed"
  /\ sandbox_urls[1] = NoEntry
  /\ rec_scheduled[1] > 0
  /\ resp = LoadingPage

\* C9: a forward starts only to the recorded address and only while its age is
\* at most SANDBOX_MAX_AGE; a request that finds an older address removes it
\* and is answered with the interim page and a recreation task (unless the id is
\* flagged as recreating), or with the cannot-recreate page when the id is
\* marked as failed.
C9_NoForwardToStale ==
  [][\A id \in CloneIds :
       /\ \A h \in 1..MaxSandboxes :
            inflight'[id][h] > inflight[id][h] =>
              /\ sandbox_urls[id].url = h
              /\ now - sandbox_urls[id].at <= SANDBOX_MAX_AGE
       /\ (/\ sandbox_urls[id] # NoEntry
           /\ now - sandbox_urls[id].at > SANDBOX_MAX_AGE
           /\ ProxyRequest(id)) =>
            /\ sandbox_urls'[id] = NoEntry
            /\ IF id \in recreation_failed
                 THEN resp' = CannotRecreatePage /\ rec_scheduled' = rec_scheduled
                 ELSE /\ resp' = LoadingPage
                      /\ rec_scheduled'[id] =
                           rec_scheduled[id] + (IF id \in recreating THEN 0 ELSE 1)]_vars

\* C9 witness: an address older than the maximum age was removed by a request
\* that got the interim page and created a recreation task
C9_Witness ==
  /\ dropped[1] = "stale"
  /\ sandbox_urls[1] = NoEntry
  /\ rec_scheduled[1] > 0
  /\ resp = LoadingPage

\* the pipeline of id has a sandbox and has not yet recorded its address
PipelineCreating(id) ==
  \/ pc[id] \in {"upload", "start"}
  \/ pc[id] = "generate" /\ sandbox_task[id] = "true"

\* C10: for one id, the recorded address (at most one), the recreation
\* attempts in progress and the pipeline's sandbox not yet recorded are never
\* more than one together.
C10_OneEnvironment ==
  \A id \in CloneIds :
    (IF sandbox_urls[id] # NoEntry THEN 1 ELSE 0)
      + Cardinality(RunningAttempts(id))
      + (IF PipelineCreating(id) THEN 1 ELSE 0) <= 1

\* C10 witness: a recreation has recorded its sandbox in place of the
\* pipeline's and no attempt is in progress
C10_Witness ==
  /\ sandbox_urls[1] # NoEntry
  /\ sandbox_urls[1].url > 1
  /\ RunningAttempts(1) = {}
  /\ pc[1] = "finished"

\* the files of the returned set that carry the path
Holding(fs, path) == {j \in 1..Len(fs) : fs[j].path = path}

\* C11: in the artifact set parallel generation returns no path occurs more
\* than once, whatever the agents emitted, and the only app/page.tsx in it is
\* the assembler's: the copies the agents emitted are gone.
C11_NoPathTwice ==
  gen_pc = "returned" =>
    /\ \A path \in Paths : Cardinality(Holding(files[1], path)) <= 1
    /\ Cardinality(Holding(files[1], PagePath)) = 1
    /\ \A j \in Holding(files[1], PagePath) : files[1][j].content = 0

\* the component names of the workload
ComponentNames == {CompName(path) : path \in {q \in Paths : IsComponent(q)}}

\* the agents whose result holds a component file of the name
Emitters(name) ==
  {i \in 1..Len(agent_results) :
     \E j \in 1..Len(agent_results[i].files) :
        IsComponent(agent_results[i].files[j]) /\ CompName(agent_results[i].files[j]) = name}

\* the files of the returned set that are versions of the component
Survivors(name) ==
  {j \in 1..Len(files[1]) :
     IsComponent(files[1][j].path) /\ CompName(files[1][j].path) = name}

Lowest(S) == CHOOSE a \in S : \A b \in S : a <= b
Highest(S) == CHOOSE a \in S : \A b \in S : a >= b

\* C12: of a component name that several agents emitted exactly one version is
\* in the returned set: the lowest emitting agent's when the name is of the
\* navigation vocabulary, the highest emitting agent's otherwise.
C12_OneVersionSurvives ==
  gen_pc = "returned" =>
    \A name \in ComponentNames :
      Cardinality(Emitters(name)) >= 2 =>
        /\ Cardinality(Survivors(name)) = 1
        /\ \A j \in Survivors(name) :
             files[1][j].content =
               IF name \in NavNames THEN Lowest(Emitters(name)) ELSE Highest(Emitters(name))

\* every order in which k tasks can finish
CompletionOrders(k) ==
  {order \in [1..k -> 1..k] : \A i, j \in 1..k : order[i] = order[j] => i = j}

\* the set generate_clone_parallel returns for the agents' outputs, had the
\* tasks finished in the given order, with the page it was given
ReturnedFor(outs, order, page) ==
  ResultFiles(AllFiles(StitchedFiles(CleanResults(Gathered(outs, order))), page))

CoreOf(i) ==
  {ss_per_agent[i][j + 1] : j \in core_ranges[i][1]..(core_ranges[i][2] - 1)}

\* C14: for every number N >= 1 of screenshots the agent count W chosen for N is
\* at least 1, at most min(N, 5) and not below the count of any smaller N, and
\* the agents' core ranges are non-empty, pairwise disjoint and cover exactly
\* the snapshot indices 0..N-1.
C14_CoreRangesPartition ==
  /\ num_agents > 0 =>
       /\ 1 <= num_agents
       /\ num_agents <= num_screens
       /\ num_agents <= MAX_PARALLEL_AGENTS
       /\ \A m \in 1..num_screens : DetermineAgentCount(m) <= num_agents
  /\ core_ranges # << >> =>
       /\ Len(core_ranges) = num_agents
       /\ Len(ss_per_agent) = num_agents
       /\ \A i \in 1..num_agents :
            /\ 0 <= core_ranges[i][1]
            /\ core_ranges[i][1] < core_ranges[i][2]
            /\ core_ranges[i][2] <= Len(ss_per_agent[i])
       /\ \A i, j \in 1..num_agents : i # j => CoreOf(i) \cap CoreOf(j) = {}
       /\ UNION {CoreOf(i) : i \in 1..num_agents} = 0..(num_screens - 1)

\* seven screenshots or more: five agents, the first two with one core
\* screenshot more than the rest
C14_Witness ==
  /\ num_screens = 7
  /\ num_agents = MAX_PARALLEL_AGENTS
  /\ core_ranges # << >>
  /\ Cardinality(CoreOf(1)) = 2
  /\ Cardinality(CoreOf(5)) = 1

\* the agents whose call failed twice or whose task raised
FailedAgents ==
  {i \in 1..Len(agent_out) : agent_out[i].status \in {"failed", "raised"}}

\* the files of the other agents that are no page.tsx copies, tagged
FilesOfOthers ==
  UNION {{[path |-> agent_out[i].files[j], agent |-> i] :
            j \in {k \in 1..Len(agent_out[i].files) : ~IsPage(agent_out[i].files[k])}} :
         i \in (1..Len(agent_out)) \ FailedAgents}

Range(q) == {q[j] : j \in 1..Len(q)}

\* C15: with two agents or more, an agent whose call failed on both attempts
\* or whose task raised stands in the gathered results as an empty result and
\* generation does not raise; the files of the other agents are stitched, the
\* page is assembled, the set is returned, and _run_clone goes on to deploy it
\* whenever the sandbox stands: an error event then has another cause.
C15_FailedAgentIsEmpty ==
  /\ gen_pc = "raised" => agent_pc = << >>
  /\ gen_pc \in {"assemble", "returned"} =>
       /\ \A i \in FailedAgents : agent_results[i].files = << >>
       /\ FilesOfOthers \subseteq Range(StitchedFiles(agent_results))
  /\ gen_pc = "returned" /\ FailedAgents # {} =>
       /\ page_content # NoPage
       /\ files[1] = ResultFiles(AllFiles(StitchedFiles(agent_results), page_content))
       /\ \A f \in FilesOfOthers :
            IF IsComponent(f.path)
              THEN CompName(f.path) \in WordNames => Survivors(CompName(f.path)) # {}
              ELSE [path |-> f.path, content |-> f.agent] \in Range(files[1])
       /\ sandbox_task[1] = "true" =>
            /\ pc[1] = "upload"
            /\ upIdx[1] = 1
            /\ Count(status_queue[1], "error") = 0

\* three agents: one failed twice, one raised, the third wrote Navbar, which is
\* being deployed
C15_Witness ==
  /\ gen_pc = "returned"
  /\ \E i, j \in FailedAgents : agent_out[i].status = "failed" /\ agent_out[j].status = "raised"
  /\ \E f \in FilesOfOthers : f.path = NavbarPath
  /\ \E j \in 1..Len(files[1]) : files[1][j].path = NavbarPath
  /\ pc[1] = "upload"

\* C16: whatever the planner's call does (raises, returns text that does not
\* parse, or returns JSON of another shape than the mapping asked for), the
\* step that ends planning leaves one assignment per agent, starts every agent
\* and ends no session in error.
C16_PlannerNeverFatal ==
  [][gen_pc = "plan" /\ gen_pc' # "plan" =>
       /\ gen_pc' = "agents"
       /\ Len(component_assignments') = num_agents
       /\ agent_pc' = [i \in 1..num_agents |-> "call"]
       /\ pc'[1] = "generate"
       /\ Count(status_queue'[1], "error") = 0]_vars

\* the first place of x in q
FirstIndex(q, x) == CHOOSE j \in 1..Len(q) : q[j] = x /\ \A i \in 1..(j - 1) : q[i] # x

\* q holds every name of the list exactly once and no other, in the order in
\* which the names first occur in the list
UniqueInOrder(q, names) ==
  /\ Range(q) = Range(names)
  /\ \A a, b \in 1..Len(q) : q[a] = q[b] => a = b
  /\ \A a, b \in 1..Len(q) : a < b => FirstIndex(names, q[a]) < FirstIndex(names, q[b])

\* C17: the fallback page imports and renders every component name of the
\* stitched list exactly once, in the order of first occurrence (agent order),
\* each from its own file, and no other name; the page generation returns is
\* either a reply of the assembler that passed validation or this fallback
\* (used when the call raised, replied nothing or failed validation), and with
\* the fallback the session goes on to deployment without an error event
\* whenever the sandbox stands.
C17_FallbackComposition ==
  gen_pc = "returned" =>
    /\ page_content.by \in {"assembler", "fallback"}
    /\ page_content.by = "assembler" => PageValid(page_content, ComponentOrder(agent_results))
    /\ page_content.by = "fallback" =>
         /\ UniqueInOrder(NamesOf(page_content.imports), NamesOf(ComponentOrder(agent_results)))
         /\ UniqueInOrder(page_content.renders, NamesOf(ComponentOrder(agent_results)))
         /\ \A j \in 1..Len(page_content.imports) :
              page_content.imports[j].from = page_content.imports[j].name
         /\ sandbox_task[1] = "true" =>
              pc[1] = "upload" /\ Count(status_queue[1], "error") = 0

\* agents 1, 2, 3 wrote Footer, Navbar, Navbar; the fallback imports Footer,
\* then Navbar, and is being deployed
C17_Witness ==
  /\ gen_pc = "returned"
  /\ page_content.by = "fallback"
  /\ NamesOf(ComponentOrder(agent_results)) = << "Footer", "Navbar", "Navbar" >>
  /\ NamesOf(page_content.imports) = << "Footer", "Navbar" >>
  /\ pc[1] = "upload"

\* every agent's gathered result is empty
NoAgentContributed ==
  /\ agent_results # << >>
  /\ \A i \in 1..Len(agent_results) : agent_results[i].files = << >>

\* C18: when no agent contributed a file, generation ends the session with an
\* error event and nothing of it is deployed: no upload begins and no files are
\* kept for the session.
C18_EmptyGenerationFails ==
  gen_pc = "returned" /\ NoAgentContributed =>
    /\ pc[1] = "finished"
    /\ Count(status_queue[1], "error") = 1
    /\ upIdx[1] = 0
    /\ Count(status_queue[1], "file_upload") = 0
    /\ storage[1] = << >>

\* C19: when the sandbox answers a forwarded request with any status other
\* than 502, 503 and 504 (4xx and 500 included), the proxy keeps the recorded
\* address, creates no recreation task and answers with that same status
\* code, whatever the content type of the answer.
C19_StatusRelayed ==
  [][\A h \in 1..MaxSandboxes, status \in ForwardOutcomes \ GatewayFailures,
        ctype \in ContentTypes :
       ProxyAnswer(1, h, status, ctype) =>
         /\ resp'.code = status
         /\ sandbox_urls' = sandbox_urls
         /\ rec_scheduled' = rec_scheduled]_vars

\* the id has no address on record, or one older than the maximum age
NotLive(id) == sandbox_urls[id] = NoEntry \/ IsStale(id)

\* C20: the mark of permanent failure is never taken back, and a proxy
\* request for a marked id without a live address gets the cannot-recreate
\* page with status 404 and creates no recreation task; a request for an id
\* without a live address that is not marked gets the interim page.
C20_TerminalResponse ==
  [][/\ recreation_failed \subseteq recreation_failed'
     /\ \A id \in CloneIds :
          NotLive(id) /\ ProxyRequest(id) =>
            IF id \in recreation_failed
              THEN /\ resp' = CannotRecreatePage
                   /\ resp'.code = 404
                   /\ rec_scheduled' = rec_scheduled
              ELSE resp' = LoadingPage]_vars

\* a marked id without an address was answered with the terminal page
C20_Witness ==
  /\ 1 \in recreation_failed
  /\ sandbox_urls[1] = NoEntry
  /\ resp = CannotRecreatePage
  /\ rec_scheduled[1] = 0

RateError == [code |-> 429, body |-> "rate"]

\* the client keys whose last recorded request lies inside the rate window
InsideWindow == {c \in Clients : now - rate_limit_map[c] < RATE_LIMIT_SECONDS}

\* C24 as stated: every clone request of a key inside the rate window gets the
\* rate-limit error and changes nothing of the admission state.
C24_RateLimitError ==
  [][\A c \in InsideWindow :
       clone_website(c)
         => /\ resp' = RateError
            /\ UNCHANGED <<active_clones, clone_semaphore, sem_waiters, clone_queues,
                           nextId, pc, status_queue>>]_vars

\* C24: a clone request of a key inside the rate window is rejected and starts
\* no pipeline, leaving the in-flight marks, the gate and the queue registry
\* as they were; the error is the rate-limit error when the key has no
\* session in flight, and the busy error, whose check comes first, when it has.
C24_RejectedInsideWindow ==
  [][\A c \in InsideWindow :
       clone_website(c)
         => /\ resp' = (IF active_clones[c] # None THEN BusyError ELSE RateError)
            /\ UNCHANGED <<active_clones, clone_semaphore, sem_waiters, clone_queues,
                           nextId, pc, status_queue, rate_limit_map>>]_vars

\* C24 witness: a key whose session has finished asked again inside the window
\* and got the rate-limit error
C24_Witness ==
  /\ resp = RateError
  /\ \E s \in CloneIds :
       /\ pc[s] = "finished"
       /\ client_ip[s] \in InsideWindow
       /\ active_clones[client_ip[s]] = None

\* C25: the last-request time of a key changes only when a request of the key
\* is accepted; a step that answers a clone request with an error (busy,
\* rate-limit or capacity) leaves every key's time unchanged.
C25_RecordedOnAcceptance ==
  [][\A c \in Clients :
       (clone_website(c) /\ resp'.code # 200) => UNCHANGED rate_limit_map]_vars

\* the base range of agent i as the assignment recorded it: the snapshot
\* indices its core offsets select, in the order of its list
BaseRange(i) == SliceOf(ss_per_agent[i], core_ranges[i][1], core_ranges[i][2])

BaseSizes == [i \in 1..Len(core_ranges) |-> Len(BaseRange(i))]

\* C27: the base ranges are runs of consecutive snapshot indices that follow
\* one another from 0 to N-1 in the order of the agents, their sizes never
\* grow from one agent to the next and differ by at most one; seven
\* screenshots go to five agents with sizes 2, 2, 1, 1, 1.
C27_EvenBaseRanges ==
  /\ num_agents > 0 /\ num_screens = 7 => num_agents = 5
  /\ core_ranges # << >> =>
       /\ \A i \in 1..num_agents :
            /\ BaseRange(i) # << >>
            /\ \A j \in 1..(Len(BaseRange(i)) - 1) : BaseRange(i)[j + 1] = BaseRange(i)[j] + 1
       /\ BaseRange(1)[1] = 0
       /\ \A i \in 1..(num_agents - 1) :
            BaseRange(i + 1)[1] = BaseRange(i)[Len(BaseRange(i))] + 1
       /\ BaseRange(num_agents)[Len(BaseRange(num_agents))] = num_screens - 1
       /\ \A i, j \in 1..num_agents :
            i < j => BaseSizes[j] <= BaseSizes[i] /\ BaseSizes[i] <= BaseSizes[j] + 1
       /\ num_screens = 7 => BaseSizes = << 2, 2, 1, 1, 1 >>

\* C27 witness: the assignment of seven screenshots, and one with a remainder
\* of more than one agent
C27_Witness ==
  /\ num_screens = 7
  /\ core_ranges # << >>
  /\ BaseSizes = << 2, 2, 1, 1, 1 >>
  /\ BaseRange(2) = << 2, 3 >>

\* the base range the even division gives agent i of k for n snapshots: the
\* first n % k agents take one index more than n \div k
EvenBase(n, k, i) ==
  LET q == n \div k
      r == n % k
      lo == (i - 1) * q + (IF i - 1 < r THEN i - 1 ELSE r)
  IN Slice(lo, lo + q + (IF i - 1 < r THEN 1 ELSE 0))

\* C26: the list of every agent is its base range with exactly one snapshot
\* before it, the last of the previous agent's base range, unless the agent is
\* the first, and exactly one after it, the first of the next agent's base
\* range, unless it is the last; the offsets list has the offset of every
\* snapshot of the list at the same place; and the core offsets select the
\* base range.
C26_OverlapByOne ==
  core_ranges # << >> =>
    /\ Len(ss_per_agent) = num_agents /\ Len(pos_per_agent) = num_agents
    /\ \A i \in 1..num_agents :
         LET base == EvenBase(num_screens, num_agents, i)
             before == IF i > 1 THEN << base[1] - 1 >> ELSE << >>
             after == IF i < num_agents THEN << base[Len(base)] + 1 >> ELSE << >>
         IN /\ ss_per_agent[i] = before \o base \o after
            /\ i > 1 => before[1] = BaseRange(i - 1)[Len(BaseRange(i - 1))]
            /\ i < num_agents => after[1] = BaseRange(i + 1)[1]
            /\ BaseRange(i) = base
            /\ core_ranges[i] = << Len(before), Len(before) + Len(base) >>
            /\ Len(pos_per_agent[i]) = Len(ss_per_agent[i])
            /\ \A j \in 1..Len(ss_per_agent[i]) :
                 pos_per_agent[i][j] = ScrollPositions(num_screens)[ss_per_agent[i][j] + 1]

\* C26 witness: seven screenshots; the second agent sees one snapshot of each
\* neighbour around its two, the first none before, the last none after
C26_Witness ==
  /\ num_screens = 7
  /\ core_ranges # << >>
  /\ ss_per_agent[1] = << 0, 1, 2 >>
  /\ ss_per_agent[2] = << 1, 2, 3, 4 >>
  /\ pos_per_agent[2] = << VIEWPORT_HEIGHT, 2 * VIEWPORT_HEIGHT, 3 * VIEWPORT_HEIGHT,
                           4 * VIEWPORT_HEIGHT >>
  /\ ss_per_agent[5] = << 5, 6 >>
  /\ core_ranges[2] = << 1, 3 >>

\* a probe of session s that found no error of the application: the page was
\* clean, or the request failed at transport level
CleanProbe(s) ==
  \E p \in PersistOutcomes : FixProbe(s, "healthy", p) \/ FixProbe(s, "unreachable", p)

\* C22: the auto-fix loop of a session has at most MAX_FIX_RETRIES (3) rounds
\* and sends at most one repair call in each, so at most 3 in all; a probe
\* that finds the page clean, or that fails at transport level, ends the loop
\* at once: no fixing event, no repair call, the session completes with done.
C22_BoundedRepair ==
  /\ [](\A s \in CloneIds :
          /\ fix_attempt[s] \in 0..(MAX_FIX_RETRIES - 1)
          /\ calls[s].repair \in {fix_attempt[s], fix_attempt[s] + 1}
          /\ calls[s].repair <= MAX_FIX_RETRIES)
  /\ [][\A s \in CloneIds :
          CleanProbe(s)
            => /\ calls' = calls
               /\ pc'[s] = "finished"
               /\ status_queue'[s] = status_queue[s] \o << "done", "_done" >>]_vars

\* C22 witness: a session whose three rounds each sent a repair call
C22_Witness ==
  /\ pc[1] = "finished"
  /\ fix_attempt[1] = MAX_FIX_RETRIES - 1
  /\ calls[1].repair = MAX_FIX_RETRIES
  /\ Count(status_queue[1], "fixing") = MAX_FIX_RETRIES

\* C23: from the moment the address of a session is recorded the session has
\* no error event, and it comes to its end with the done event, whatever the
\* probes and the repair calls return.
C23_ServingEndsDone ==
  /\ [](\A s \in CloneIds :
          sandbox_urls[s] # NoEntry
            => /\ Count(status_queue[s], "error") = 0
               /\ pc[s] = "finished" => Count(status_queue[s], "done") = 1)
  /\ \A s \in CloneIds :
       (sandbox_urls[s] # NoEntry)
         ~> (pc[s] = "finished" /\ Count(status_queue[s], "done") = 1)

\* C23 witness: a session that ended with done after its repair call failed
\* (a call was sent, no file was changed)
C23_Witness ==
  /\ pc[1] = "finished"
  /\ sandbox_urls[1] # NoEntry
  /\ calls[1].repair = 1
  /\ \A i \in 1..Len(files[1]) : files[1][i].content # "fixed"
  /\ Count(status_queue[1], "done") = 1

\* C30: in a generation of a single screenshot (one agent, the call made by
\* generate_clone itself) a first call that fails is followed by a second
\* call, the session going on, instead of the failure leaving the generation
\* step.
C30_SingleCallRetried ==
  [][(gen_pc = "single" /\ calls[1].single = 1 /\ GenerateDone(1, "raise", TRUE))
       => (calls'[1].single = 2 /\ pc'[1] = "generate")]_vars

\* the component names of the files generation returned to the session
FinalComponents ==
  {files[1][j].path.name : j \in {i \in 1..Len(files[1]) : IsComponent(files[1][i].path)}}

\* C28: a page of the assembler that generation returns imports every name of
\* the stitched component list, no other name, and each exactly once; and the
\* page returned, the assembler's or the fallback, imports and renders only
\* names that have a component file among the files returned.
C28_CompositionExact ==
  gen_pc = "returned" =>
    LET names == NamesOf(page_content.imports)
        unique == Range(NamesOf(ComponentOrder(agent_results)))
    IN /\ page_content.by = "assembler" =>
            /\ Range(names) = unique
            /\ \A x \in unique : Count(names, x) = 1
       /\ Range(names) \cup Range(page_content.renders) \subseteq FinalComponents

\* C29: a section agent sends its generation call at most twice, the second
\* time only from the step in which its first call failed, and its
\* continuation call at most once, only from a step in which a generation
\* call returned a reply that is cut at the length limit and holds text; the
\* session sends one planner call and one assembler call at most, whatever
\* they return, and one repair call at most in a round of the auto-fix loop,
\* a repair call that fails being the last.
C29_CallsBounded ==
  /\ [](/\ \A i \in 1..Len(agent_calls) :
             agent_calls[i].gen \in 1..2 /\ agent_calls[i].cont \in 0..1
        /\ calls[1].planner <= 1
        /\ calls[1].assembler <= 1
        /\ calls[1].repair <= fix_attempt[1] + 1)
  /\ [][/\ \A i \in 1..Len(agent_calls) :
             /\ agent_calls'[i].gen # agent_calls[i].gen
                  => /\ agent_pc[i] = "call"
                     /\ AgentStep(1, i, "error", << >>)
             /\ agent_calls'[i].cont # agent_calls[i].cont
                  => /\ agent_pc[i] \in {"call", "retry"}
                     /\ agent_out'[i].status = "truncated"
        /\ (pc[1] = "fix_call" /\ FixCallDone(1, FALSE, "stored"))
             => (calls' = calls /\ pc'[1] = "finished")]_vars

\* C29 witness: an agent whose first call failed, whose second call was cut at
\* the length limit, and whose continuation has returned
C29_Witness ==
  \E i \in 1..Len(agent_calls) :
    /\ agent_calls[i] = [gen |-> 2, cont |-> 1]
    /\ agent_pc[i] = "done"
    /\ calls[1].planner = 1

\* the body of UpstreamBody with both references led through the proxy prefix
PrefixedBody ==
  << "\"/api/sandbox/{clone_id}/_next/", "text", "'/api/sandbox/{clone_id}/_next/" >>

\* the sandbox's answers that are relayed
RelayedOutcomes == ForwardOutcomes \ ({0} \cup GatewayFailures)

GenerationFailed(s) ==
  /\ pc[s] = "finished"
  /\ Count(status_queue[s], "generating") > 0
  /\ Count(status_queue[s], "deploying") = 0

\* C31: after a pipeline ends because generation failed (exception or no
\* artifacts), no sandbox instance of the session remains recorded and no
\* sandbox created for it at the provider is left undeleted.
C31_NothingLeftAfterFailedGeneration ==
  \A s \in CloneIds :
    GenerationFailed(s) => sandbox_instances[s] = None /\ provider[s] = {}

\* the last two events the pipeline of session s put
EndsWith(s, a, b) ==
  /\ Len(status_queue[s]) >= 2
  /\ status_queue[s][Len(status_queue[s]) - 1] = a
  /\ status_queue[s][Len(status_queue[s])] = b

EnvironmentFailed(s) ==
  /\ pc[s] = "finished"
  /\ \/ sandbox_task[s] = "false"
     \/ sandbox_task[s] = "true" /\ files[s] # << >> /\ sandbox_urls[s] = NoEntry

\* C33: a failure of sandbox creation, of dependency installation or of the
\* dev server's start ends the session with exactly one error event (and no
\* done event), and the pipeline creates at most one sandbox: the setup task
\* runs once and its result is final.
C33_EnvironmentFailureIsFatal ==
  /\ [](\A s \in CloneIds :
          /\ EnvironmentFailed(s) =>
               /\ Count(status_queue[s], "error") = 1
               /\ Count(status_queue[s], "done") = 0
               /\ EndsWith(s, "error", "_done")
          /\ nextSandbox[s] <= 2
          /\ Cardinality(provider[s]) <= 1)
  /\ [][\A s \in CloneIds :
          sandbox_task[s] \in {"true", "false", "cancelled"} =>
            /\ sandbox_task'[s] = sandbox_task[s]
            /\ nextSandbox'[s] = nextSandbox[s]]_vars

\* the dependency installation failed in the one sandbox that was created, the
\* files were generated, and the session ended with one error
C33_Witness ==
  /\ pc[1] = "finished"
  /\ sandbox_task[1] = "false"
  /\ nextSandbox[1] = 2
  /\ files[1] # << >>
  /\ Count(status_queue[1], "error") = 1

\* the hint names one of the generated files of session s: it is the path of
\* one, or a non-empty suffix of it that begins at a directory boundary
HintNamesFile(s, hint) ==
  /\ hint # ""
  /\ \E i \in 1..Len(files[s]) :
       files[s][i].path = hint \/ LastSegment(files[s][i].path) = hint

\* C34: in a repair round whose error hint matches no generated file, neither
\* exactly nor as a suffix (an empty hint and a hint for a file that was not
\* generated are such hints), the loop stops: no repair call is sent, no file
\* content changes, nothing is uploaded again, and the pipeline goes on to its
\* end.
C34_UnmatchedHintStops ==
  [][\A hint \in ErrorHints, p \in PersistOutcomes :
       (~HintNamesFile(1, hint) /\ FixProbe(1, hint, p)) =>
         /\ calls' = calls
         /\ files' = files
         /\ pc'[1] = "finished"]_vars

\* the file of session s that the repair call was sent for, as repaired
RepairedFile(s) == [path |-> err_file[s], content |-> "fixed"]

C36_NothingAfterSentinel ==
  /\ [][\A s \in CloneIds :
          Count(status_queue[s], "_done") > 0 => status_queue'[s] = status_queue[s]]_vars
  /\ [](\A s \in CloneIds :
          sandbox_task[s] = "cancelled" =>
            /\ Count(status_queue[s], "msg") = 0
            /\ nextSandbox[s] = 1)

\* generation failed after the setup task had put its messages, and the
\* sentinel is the last event of the queue
C36_Witness ==
  /\ GenerationFailed(1)
  /\ sandbox_task[1] \in {"true", "false"}
  /\ Count(status_queue[1], "msg") > 0
  /\ EndsWith(1, "error", "_done")

\* C37: the proxy removes a recorded address only when that address is older
\* than the maximum age or when a forward to that same address failed; the
\* answer of a request that was forwarded to an earlier address leaves a newer
\* recorded address in place.
C37_OnlyOwnFailureDrops ==
  [][\A id \in CloneIds, h \in 1..MaxSandboxes :
       (/\ inflight'[id][h] < inflight[id][h]
        /\ sandbox_urls[id] # NoEntry
        /\ sandbox_urls[id].url # h) =>
         sandbox_urls'[id] = sandbox_urls[id]]_vars

\* C38: an id is marked as permanently failed only while nothing is persisted
\* for it: once the pipeline has persisted files for an id the mark is absent,
\* so the proxy never answers the id with the cannot-recreate page.
C38_FailedOnlyWhileNothingPersisted ==
  \A id \in CloneIds : id \in recreation_failed => storage[id] = << >>

\* C39: a sandbox created for an id is deleted before another one is created
\* for the same id: at most one sandbox of an id exists at the provider.
C39_OneSandboxPerId ==
  \A id \in CloneIds : Cardinality(provider[id]) <= 1

\* the steps of a recreation task with every outcome of its calls: the task
\* from its start to its return or to the first sleep of start_dev_server, and
\* one readiness poll of a running attempt
RecreateTaskRuns ==
  \E st \in StorageOutcomes, setup \in SetupOutcomes, execOk \in BOOLEAN :
    RecreateStart(1, st, setup, execOk)
RecreatePolls ==
  ~TaskWaiting /\ \E a \in rec_running, ready \in BOOLEAN, linkOk \in BOOLEAN :
                    RecreatePoll(a, ready, linkOk)

\* Retry workload: one clone id, its pipeline, the preview traffic for it with
\* every answer of the sandbox, and recreations with every outcome of the
\* storage, of the provider and of the dev server.  Scheduling as in the proxy
\* workload.
NextRetry ==
  \/ nextId = 1 /\ CloneAccept(1)
  \/ RunCloneStart(1)
  \/ SandboxTaskRun(1, "ok")
  \/ ProxyRequest(1)
  \/ \E h \in 1..MaxSandboxes, status \in ForwardOutcomes, ctype \in ContentTypes :
       ProxyAnswer(1, h, status, ctype)
  \/ RecreateTaskRuns
  \/ RecreatePolls
  \/ ~TaskWaiting /\ PipelineBrief(1)

\* The event loop runs a created task on its next iteration, and the sleep
\* between two polls of start_dev_server ends (sandbox.py:219-236).
SpecRetry ==
  /\ Init /\ [][NextRetry]_vars
  /\ WF_vars(RecreateTaskRuns)
  /\ WF_vars(RecreatePolls)

\* a proxy request for id 1 that finds the flag clear and no live address
UnflaggedNotLiveRequest == 1 \notin recreating /\ NotLive(1) /\ ProxyRequest(1)

\* C40 as stated: the flag of an id is set exactly while an attempt of that id
\* is suspended in start_dev_server, a flagged id is unflagged later, and
\* every proxy request that finds the flag clear and no live address creates
\* a recreation task.
C40_ClearedAndRestartable ==
  /\ [](1 \in recreating <=> RunningAttempts(1) # {})
  /\ (1 \in recreating) ~> (1 \notin recreating)
  /\ [][UnflaggedNotLiveRequest => rec_scheduled'[1] = rec_scheduled[1] + 1]_vars

\* C40, amended: the flag of an id is set exactly while an attempt of that id
\* is suspended in start_dev_server, a flagged id is unflagged later whatever
\* the outcome of the attempt, and a proxy request that finds the flag clear
\* and no live address creates a recreation task unless the id is marked
\* permanently failed; for a marked id it creates none.
C40_ClearedAndRestartableUnlessFailed ==
  /\ [](1 \in recreating <=> RunningAttempts(1) # {})
  /\ (1 \in recreating) ~> (1 \notin recreating)
  /\ [][UnflaggedNotLiveRequest =>
          IF 1 \in recreation_failed THEN rec_scheduled' = rec_scheduled
          ELSE rec_scheduled'[1] = rec_scheduled[1] + 1]_vars

\* an attempt of a second sandbox has ended, the flag is clear, and a later
\* request without a live address has created the task of the next attempt
C40_Witness ==
  /\ nextSandbox[1] > 2
  /\ 1 \notin recreating
  /\ sandbox_urls[1] = NoEntry
  /\ rec_scheduled[1] > 0
  /\ resp = LoadingPage

====
